---- MODULE Spec2Model ----
(***************************************************************************)
(* A state-machine model of the iterative DNS resolver in                  *)
(* src/DNSResolver/DNSResolver.py (class DNSResolver) together with the    *)
(* parts of src/DNSResolver/DNSPacket.py it constructs.                    *)
(*                                                                         *)
(* Python strings are modelled as sequences of one-character strings, so   *)
(* that lower(), strip("."), split(".") and join are computed rather than  *)
(* assumed.  Python's None in a place that otherwise holds a list is the   *)
(* empty sequence (a list stored in the cache is never empty, lines 56-59);*)
(* None in a place that otherwise holds a packet is the value None below.  *)
(***************************************************************************)
EXTENDS Integers, Sequences, FiniteSets, TLC

(***************************************************************************)
(* Bounds of the model.                                                    *)
(***************************************************************************)
\* largest recursion_limit a caller passes to recursive_query
MaxRecursionLimit == 2
\* the per-call history counters (datagrams sent, referrals followed) stop
\* counting at this value
MaxCount == 4

\* the default of recursive_query's recursion_limit
DefaultRecursionLimit == 10

None == [none |-> TRUE]

\* the outcome of a call that raises
Raised == [raised |-> TRUE]
IsRaised(r) == r = Raised

(***************************************************************************)
(* Strings.                                                                *)
(***************************************************************************)
\* str.lower() on the alphabet the model uses
lower(s) ==
  [i \in 1..Len(s) |->
     CASE s[i] = "X" -> "x"
       [] s[i] = "N" -> "n"
       [] s[i] = "R" -> "r"
       [] s[i] = "A" -> "a"
       [] s[i] = "B" -> "b"
       [] s[i] = "C" -> "c"
       [] s[i] = "D" -> "d"
       [] s[i] = "E" -> "e"
       [] s[i] = "F" -> "f"
       [] OTHER -> s[i]]

RECURSIVE lstrip(_)
lstrip(s) == IF s # <<>> /\ Head(s) = "." THEN lstrip(Tail(s)) ELSE s

RECURSIVE rstrip(_)
rstrip(s) ==
  IF s # <<>> /\ s[Len(s)] = "." THEN rstrip(SubSeq(s, 1, Len(s) - 1)) ELSE s

\* str.strip(".")
strip(s) == rstrip(lstrip(s))

\* str.split("."): "a.b." gives ["a", "b", ""]
RECURSIVE splitFrom(_, _)
splitFrom(s, cur) ==
  IF s = <<>> THEN <<cur>>
  ELSE IF Head(s) = "." THEN <<cur>> \o splitFrom(Tail(s), <<>>)
  ELSE splitFrom(Tail(s), Append(cur, Head(s)))

split(s) == splitFrom(s, <<>>)

\* ".".join(parts)
RECURSIVE join(_)
join(parts) ==
  IF parts = <<>> THEN <<>>
  ELSE IF Len(parts) = 1 THEN parts[1]
  ELSE parts[1] \o <<".">> \o join(Tail(parts))

RECURSIVE splitOnFrom(_, _, _)
splitOnFrom(s, sep, cur) ==
  IF s = <<>> THEN <<cur>>
  ELSE IF Head(s) = sep THEN <<cur>> \o splitOnFrom(Tail(s), sep, <<>>)
  ELSE splitOnFrom(Tail(s), sep, Append(cur, Head(s)))

\* str.split(sep)
splitOn(s, sep) == splitOnFrom(s, sep, <<>>)

RECURSIVE joinOn(_, _)
\* sep.join(parts)
joinOn(parts, sep) ==
  IF parts = <<>> THEN <<>>
  ELSE IF Len(parts) = 1 THEN parts[1]
  ELSE parts[1] \o <<sep>> \o joinOn(Tail(parts), sep)

\* line 49 without lower()
sanitize_domain_NoLower(domain) == strip(domain) \o <<".">>

\* DNSResolver.__sanitize_domain
sanitize_domain(domain) == strip(lower(domain)) \o <<".">>

(***************************************************************************)
(* Records, headers, packets (DNSPacket.py).                               *)
(***************************************************************************)
\* DNSRecord.__init__ (qclass defaults to QCLASS.IN)
DNSRecord(name, qtype, ttl, rdata) ==
  [name |-> name, qtype |-> qtype, qclass |-> "IN", ttl |-> ttl, rdata |-> rdata]

\* DNSRecord.__eq__: name, qtype, qclass, ttl and rdata
RecordEq(a, b) ==
  /\ a.name = b.name
  /\ a.qtype = b.qtype
  /\ a.qclass = b.qclass
  /\ a.ttl = b.ttl
  /\ a.rdata = b.rdata

\* SOARdata.__init__
SOARdata(mname, rname, serial, refresh, retry, expire, minimum) ==
  [mname |-> mname, rname |-> rname, serial |-> serial, refresh |-> refresh,
   retry |-> retry, expire |-> expire, minimum |-> minimum]

\* DNSHeader.__init__ with every argument defaulted
DNSHeader ==
  [id |-> 0, qr |-> "QUERY", opcode |-> "QUERY", aa |-> "NOT_AUTHORITATIVE",
   tc |-> "NOT_TRUNCATED", rd |-> "NO_RECURSION", ra |-> "NO_RECURSION_AVAILABLE",
   z |-> "RESERVED", ad |-> "NOT_AUTHENTICATED", cd |-> "NO_CHECK",
   rcode |-> "NO_ERROR", qdcount |-> 0, ancount |-> 0, nscount |-> 0, arcount |-> 0]

\* DNSPacket.__init__: the four counts of the header object it is given are
\* overwritten with the lengths of the sections
DNSPacket(header, questions, answer_records, authority_records, additional_records) ==
  [header |-> [header EXCEPT !.qdcount = Len(questions),
                             !.ancount = Len(answer_records),
                             !.nscount = Len(authority_records),
                             !.arcount = Len(additional_records)],
   question |-> questions,
   answer_records |-> answer_records,
   authority_records |-> authority_records,
   additional_records |-> additional_records]

\* DNSQuestion.__init__
DNSQuestion(qname, qtype) == [qname |-> qname, qtype |-> qtype, qclass |-> "IN"]

(***************************************************************************)
(* The record cache: a function from sanitized names to functions from     *)
(* record types to non-empty lists of records.                             *)
(***************************************************************************)
\* line 58 looking only at the first record of the list
Contains_HeadOnly(list, record) ==
  IF list = <<>> THEN FALSE
  ELSE /\ list[1].name = record.name
       /\ list[1].qtype = record.qtype
       /\ list[1].qclass = record.qclass
       /\ list[1].ttl = record.ttl
       /\ list[1].rdata = record.rdata

RECURSIVE Contains(_, _)
\* "record in list", by DNSRecord.__eq__
Contains(list, record) ==
  IF list = <<>> THEN FALSE
  ELSE RecordEq(Head(list), record) \/ Contains(Tail(list), record)

\* lines 58-59 assigning [record] in place of append
cache_record_Replace(c, record) ==
  LET sanitized_name == sanitize_domain(record.name)
      byType == IF sanitized_name \in DOMAIN c THEN c[sanitized_name] ELSE <<>>
      list == IF record.qtype \in DOMAIN byType THEN byType[record.qtype] ELSE <<>>
      list1 == IF Contains(list, record) THEN list ELSE <<record>>
  IN [k \in DOMAIN c \cup {sanitized_name} |->
        IF k # sanitized_name THEN c[k]
        ELSE [t \in DOMAIN byType \cup {record.qtype} |->
                IF t # record.qtype THEN byType[t] ELSE list1]]

\* one iteration of the loop of DNSResolver.__cache_records
cache_record(c, record) ==
  LET sanitized_name == sanitize_domain(record.name)
      c1 == IF sanitized_name \in DOMAIN c THEN c
            ELSE [k \in DOMAIN c \cup {sanitized_name} |->
                    IF k = sanitized_name THEN <<>> ELSE c[k]]
      byType == c1[sanitized_name]
      byType1 == IF record.qtype \in DOMAIN byType THEN byType
                 ELSE [t \in DOMAIN byType \cup {record.qtype} |->
                         IF t = record.qtype THEN <<>> ELSE byType[t]]
      list == byType1[record.qtype]
      list1 == IF Contains(list, record) THEN list ELSE Append(list, record)
  IN [c1 EXCEPT ![sanitized_name] = [byType1 EXCEPT ![record.qtype] = list1]]

RECURSIVE cache_records(_, _)
\* DNSResolver.__cache_records
cache_records(c, packet) ==
  IF packet = <<>> THEN c
  ELSE cache_records(cache_record(c, Head(packet)), Tail(packet))

\* DNSResolver.__check_cache; <<>> stands for None
check_cache(c, fqdn, qtype) ==
  LET sanitized_name == sanitize_domain(fqdn)
  IN IF sanitized_name \in DOMAIN c /\ qtype \in DOMAIN c[sanitized_name]
     THEN c[sanitized_name][qtype]
     ELSE <<>>

RECURSIVE nearest_from_NoRoot(_, _, _)
\* lines 73-76 with range(len(split) - 1): the root key is never tried
nearest_from_NoRoot(c, parts, i) ==
  IF i >= Len(parts) THEN <<>>
  ELSE LET sanitized_name == sanitize_domain(join(SubSeq(parts, i, Len(parts))))
           nearest_ns == IF sanitized_name \in DOMAIN c /\ "NS" \in DOMAIN c[sanitized_name]
                         THEN c[sanitized_name]["NS"] ELSE <<>>
       IN IF nearest_ns # <<>> THEN nearest_ns ELSE nearest_from_NoRoot(c, parts, i + 1)

RECURSIVE nearest_from(_, _, _)
nearest_from(c, parts, i) ==
  IF i > Len(parts) THEN <<>>
  ELSE LET nearest_ns == check_cache(c, join(SubSeq(parts, i, Len(parts))), "NS")
       IN IF nearest_ns # <<>> THEN nearest_ns ELSE nearest_from(c, parts, i + 1)

\* DNSResolver.__check_nearest_ns; <<>> stands for None
check_nearest_ns(c, fqdn) == nearest_from(c, split(sanitize_domain(fqdn)), 1)

\* [server.rdata for server in records]
RdataOf(records) == [i \in 1..Len(records) |-> records[i].rdata]

(***************************************************************************)
(* The names, addresses, records and responses the model draws from.       *)
(***************************************************************************)
nm_root == <<".">>
nm_r == <<"R", ".">>
nm_x == <<"x", ".">>
nm_X == <<"X">>
nm_n == <<"n", ".">>
nm_N == <<"N", ".">>
nm_empty == <<>>
ip0 == <<"0">>
ip1 == <<"1">>
ip9 == <<"9">>
ip6 == <<":", ":", "1">>

\* the lines of the root-hints file, split into their four fields
HintLines ==
  << <<nm_root, 3600, "ns", nm_r>>,
     <<nm_r, 3600, "a", ip0>>,
     <<nm_r, 3600, "aaaa", ip6>> >>

\* QTYPE[record[2].upper()]
QTYPEByName(t) ==
  CASE t = "a" -> "A" [] t = "ns" -> "NS" [] t = "cname" -> "CNAME"
    [] t = "soa" -> "SOA" [] t = "ptr" -> "PTR" [] t = "aaaa" -> "AAAA"

RECURSIVE loadLines(_, _, _)
\* the first loop of DNSResolver.__loadRootNS: NS lines only name a root
\* server domain, every other four-field line is cached
loadLines(lines, c, root_srv_domains) ==
  IF lines = <<>> THEN [cache |-> c, root_srv_domains |-> root_srv_domains]
  ELSE LET record == Head(lines)
       IN IF record # <<>> /\ Head(record) # <<>> /\ Head(Head(record)) = ";"
          THEN loadLines(Tail(lines), c, root_srv_domains)   \* line 22
          ELSE IF Len(record) # 4 THEN loadLines(Tail(lines), c, root_srv_domains)
          ELSE IF record[3] = "ns"
          THEN loadLines(Tail(lines), c, Append(root_srv_domains, lower(record[4])))
          ELSE loadLines(Tail(lines),
                         cache_records(c, <<DNSRecord(lower(record[1]),
                                                      QTYPEByName(record[3]),
                                                      record[2],
                                                      lower(record[4]))>>),
                         root_srv_domains)

RECURSIVE loadRootServers(_, _, _)
\* the second loop of DNSResolver.__loadRootNS; "list += None" raises
\* TypeError when __check_cache has nothing for the domain
loadRootServers(domains, c, srv) ==
  IF domains = <<>> THEN srv
  ELSE IF check_cache(c, Head(domains), "A") = <<>>
          \/ check_cache(c, Head(domains), "AAAA") = <<>>
  THEN Raised
  ELSE loadRootServers(Tail(domains), c,
         [IPV4 |-> srv.IPV4 \o check_cache(c, Head(domains), "A"),
          IPV6 |-> srv.IPV6 \o check_cache(c, Head(domains), "AAAA")])

\* DNSResolver.__loadRootNS on the lines of a file, from the empty cache and
\* the empty server lists of lines 14-15
loadRootNS(lines) ==
  LET loaded == loadLines(lines, <<>>, <<>>)
      srv == loadRootServers(loaded.root_srv_domains, loaded.cache,
                             [IPV4 |-> <<>>, IPV6 |-> <<>>])
  IN IF IsRaised(srv) THEN Raised ELSE [cache |-> loaded.cache, root_srv |-> srv]

\* DNSResolver.__init__
Construct == loadRootNS(HintLines)

\* records a server may put in a response (as DNSRecord.fromBytes builds them)
R_ans == DNSRecord(nm_x, "A", 60, ip9)
R_ns == DNSRecord(nm_x, "NS", 60, nm_n)
R_glue == DNSRecord(nm_N, "A", 60, ip1)
R_nsaddr == DNSRecord(nm_n, "A", 60, ip1)
R_soa == DNSRecord(nm_x, "SOA", 60, SOARdata(nm_n, nm_r, 1, 2, 3, 4, 5))

\* the header DNSHeader.fromBytes builds for a response with the given rcode
ResponseHeader(rcode) == [DNSHeader EXCEPT !.qr = "RESPONSE", !.rcode = rcode]

\* the packets DNSPacket.fromBytes can return for a server's datagram
Responses ==
  { DNSPacket(ResponseHeader("NO_ERROR"), <<>>, <<R_ans>>, <<>>, <<>>),
    DNSPacket(ResponseHeader("NO_ERROR"), <<>>, <<R_nsaddr>>, <<>>, <<>>),
    DNSPacket(ResponseHeader("NO_ERROR"), <<>>, <<>>, <<R_ns>>, <<R_glue>>),
    DNSPacket(ResponseHeader("NO_ERROR"), <<>>, <<>>, <<R_ns>>, <<>>),
    DNSPacket(ResponseHeader("NO_ERROR"), <<>>, <<>>, <<R_soa>>, <<>>),
    DNSPacket(ResponseHeader("NO_ERROR"), <<>>, <<>>, <<>>, <<>>),
    DNSPacket(ResponseHeader("NAME_ERROR"), <<>>, <<>>, <<R_soa>>, <<>>),
    DNSPacket(ResponseHeader("SERVER_FAILURE"), <<>>, <<>>, <<>>, <<>>) }

\* what a caller passes to recursive_query
QueryNames == {nm_X, nm_n, nm_empty}
QueryTypes == {"A", "NS"}
\* what a caller passes to send_query as its server list ("" is skipped)
ServerLists == { <<>>, <<ip1>>, <<ip1, <<>>, ip9, ip0>> }

(***************************************************************************)
(* State.                                                                  *)
(***************************************************************************)
VARIABLES
  cache,           \* DNSResolver.__cached_records
  root_srv,        \* DNSResolver.__root_srv
  default_header,  \* the one DNSHeader() object that is the default of DNSPacket.__init__'s header
  stack,           \* the active recursive_query calls, outermost first
  sq,              \* the current (or last) send_query call
  ret,             \* what the last call that ended returned or raised
  limit,           \* recursion_limit of the current top-level recursive_query
  hist,            \* history of the current top-level call: datagrams sent, referrals followed (counted), timeouts, nested calls (whether any)
  io,              \* a call of a function of DNSPacket.py, of the hints loader or of a reverse lookup: its argument and its result
  kept             \* a packet recursive_query returned that its caller still holds: what it was when returned, and the objects it is made of

vars == <<cache, root_srv, default_header, stack, sq, ret, limit, hist, io, kept>>

Inc(n) == IF n < MaxCount THEN n + 1 ELSE MaxCount
\* records that something happened at least once
Once(n) == 1

NoFrame ==
  [arg |-> <<>>, isrec |-> FALSE, rec |-> None, fqdn |-> <<>>, qtype |-> "A", count |-> 0,
   pc |-> "none", servers |-> <<>>, src |-> "", ns_list |-> <<>>, ns_recs |-> <<>>,
   ns_idx |-> 0,
   response |-> None, errd |-> FALSE]

\* a recursive_query call that has been entered and has run nothing yet
\* (its first argument is kept in arg when it is a name and in rec when it is a
\* DNSRecord)
NewFrame(arg, isrec, qtype, count) ==
  [NoFrame EXCEPT !.arg = IF isrec THEN <<>> ELSE arg, !.isrec = isrec,
                  !.rec = IF isrec THEN arg ELSE None, !.qtype = qtype,
                  !.count = count, !.pc = "entry"]

IdleSq ==
  [status |-> "idle", request |-> None, servers |-> <<>>, roots |-> <<>>,
   recs |-> FALSE,
   idx |-> 1, buffered |-> FALSE, dests |-> <<>>, touts |-> 0,
   outcome |-> "pending", result |-> None]

PendingRet ==
  [kind |-> "pending", pkt |-> None, via |-> "", count |-> 0, response |-> None,
   arg |-> <<>>, qtype |-> "A", top |-> TRUE]

NoHist == [sent |-> 0, refs |-> 0, touts |-> 0, nested |-> 0]

\* no packet is held
NoKept ==
  [has |-> FALSE, pkt |-> None, name |-> <<>>, qtype |-> "A"]

\* no such call
NoIo == [op |-> "none", arg |-> None, out |-> None, done |-> FALSE]

Init ==
  /\ cache = Construct.cache
  /\ root_srv = Construct.root_srv
  /\ default_header = DNSHeader
  /\ stack = <<>>
  /\ sq = IdleSq
  /\ ret = PendingRet
  /\ limit = DefaultRecursionLimit
  /\ hist = NoHist
  /\ io = NoIo
  /\ kept = NoKept

(***************************************************************************)
(* Steps shared by the actions.                                            *)
(***************************************************************************)
Top == stack[Len(stack)]
Callers == SubSeq(stack, 1, Len(stack) - 1)

Idle == stack = <<>> /\ sq.status \in {"idle", "done"}

\* a return statement of recursive_query, executed by the call f
Return(f, kind, pkt, via) ==
  /\ stack' = Callers
  /\ ret' = [kind |-> kind, pkt |-> pkt, via |-> via, count |-> f.count,
             response |-> f.response, arg |-> f.arg, qtype |-> f.qtype,
             top |-> (Len(stack) = 1)]

\* an exception nothing catches: it ends every active call
Raise(f, cause) ==
  /\ stack' = <<>>
  /\ ret' = [kind |-> "raised", pkt |-> None, via |-> cause, count |-> f.count,
             response |-> f.response, arg |-> f.arg, qtype |-> f.qtype,
             top |-> TRUE]

\* send_query, lines 85-92: the request is built and the server list chosen;
\* an empty list is replaced by the V4 root server records.  The one variable
\* servers of the code is held in two fields, by what it holds: servers for a
\* list of address strings, roots (with recs set) for the list of records
send_query(fqdn, qtype, servers, rd) ==
  [status |-> "loop",
   request |-> DNSPacket([DNSHeader EXCEPT !.rd = rd],
                         <<DNSQuestion(sanitize_domain(fqdn), qtype)>>,
                         <<>>, <<>>, <<>>),
   servers |-> servers,
   roots |-> IF Len(servers) = 0 THEN root_srv.IPV4 ELSE <<>>,
   recs |-> (Len(servers) = 0),
   idx |-> 1, buffered |-> FALSE, dests |-> <<>>, touts |-> 0,
   outcome |-> "pending", result |-> None]

\* "while servers:" of recursive_query, entered by the call f with the list
\* servers: line 143 calls send_query, line 177 returns None.  src records
\* where the list came from (the root list, cached glue, a nested resolution)
WhileServers(f, servers, src) ==
  IF servers # <<>>
  THEN /\ stack' = [stack EXCEPT ![Len(stack)] =
                      [f EXCEPT !.pc = "query", !.servers = servers, !.src = src]]
       /\ sq' = send_query(f.fqdn, f.qtype, servers, "NO_RECURSION")
       /\ UNCHANGED ret
  ELSE /\ Return(f, "none", None, "exhausted")
       /\ UNCHANGED sq

\* recursion_count of a nested call (lines 136 and 172)
NestedCount(recursion_count) == recursion_count + 1

\* the call f calls recursive_query(arg, A, recursion_limit, recursion_count + 1)
\* and waits for it at pc
CallNested(f, pc, arg, isrec) ==
  /\ stack' = Append([stack EXCEPT ![Len(stack)] = [f EXCEPT !.pc = pc]],
                     NewFrame(arg, isrec, "A", NestedCount(f.count)))
  /\ UNCHANGED <<sq, ret>>

RECURSIVE CachedAddresses_FirstRecord(_, _)
\* lines 164-167 taking only the first cached A record of each name
CachedAddresses_FirstRecord(c, names) ==
  IF names = <<>> THEN <<>>
  ELSE LET records == check_cache(c, Head(names), "A")
       IN (IF records = <<>> THEN <<>> ELSE <<records[1].rdata>>)
          \o CachedAddresses_FirstRecord(c, Tail(names))

RECURSIVE CachedAddresses(_, _)
\* lines 129-132 and 164-167: the A rdata cached for each name, in list order
CachedAddresses(c, names) ==
  IF names = <<>> THEN <<>>
  ELSE RdataOf(check_cache(c, Head(names), "A")) \o CachedAddresses(c, Tail(names))

\* line 118 with > for >=
LimitReached_OffByOne(recursion_count, recursion_limit) == recursion_count > recursion_limit

\* line 118
LimitReached(recursion_count, recursion_limit) == recursion_count >= recursion_limit

(***************************************************************************)
(* Actions.                                                                *)
(***************************************************************************)
\* a caller calls recursive_query(fqdn, qtype, recursion_limit)
CallRecursiveQuery ==
  /\ Idle
  /\ \E fqdn \in QueryNames, qtype \in QueryTypes, lim \in 1..MaxRecursionLimit :
       /\ stack' = <<NewFrame(fqdn, FALSE, qtype, 0)>>
       /\ limit' = lim
  /\ ret' = PendingRet
  /\ hist' = NoHist
  /\ sq' = IdleSq
  /\ UNCHANGED <<cache, root_srv, io, kept, default_header>>

\* a caller calls send_query(fqdn, qtype, servers) directly
CallSendQuery ==
  /\ Idle
  /\ \E fqdn \in QueryNames, servers \in ServerLists :
       sq' = send_query(fqdn, "A", servers, "NO_RECURSION")
  /\ ret' = PendingRet
  /\ hist' = NoHist
  /\ UNCHANGED <<cache, root_srv, io, kept, default_header, stack, limit>>

\* recursive_query, lines 118-141: the limit, the cache fast path and the seed
Entry ==
  /\ stack # <<>>
  /\ Top.pc = "entry"
  /\ LET f == Top
     IN IF LimitReached(f.count, limit)
        THEN /\ Return(f, "none", None, "limit")
             /\ UNCHANGED <<default_header, sq, hist>>
        ELSE IF f.isrec
        THEN \* line 120 on a DNSRecord: it has no lower()
             /\ Raise(f, "sanitize_record")
             /\ UNCHANGED <<default_header, sq, hist>>
        ELSE
          LET fqdn == sanitize_domain(f.arg)
              cached == check_cache(cache, fqdn, f.qtype)
              nearest_ns == check_nearest_ns(cache, fqdn)
              g == [f EXCEPT !.fqdn = fqdn]
          IN IF cached # <<>>
             THEN \* line 123: the header is the shared default object
                  LET packet == DNSPacket(default_header, <<>>, cached, <<>>, <<>>)
                  IN /\ Return(g, "packet", packet, "cache")
                     /\ default_header' = packet.header
                     /\ UNCHANGED <<sq, hist>>
             ELSE IF nearest_ns = <<>>
             THEN /\ WhileServers(g, RdataOf(root_srv.IPV4), "root")
                  /\ UNCHANGED <<default_header, hist>>
             ELSE LET servers == CachedAddresses(cache, RdataOf(nearest_ns))
                  IN IF servers # <<>>
                     THEN /\ WhileServers(g, servers, "seed_glue")
                          /\ UNCHANGED <<default_header, hist>>
                     ELSE \* line 135 passes the record ns, not ns.rdata; the
                          \* records looped over are kept in ns_recs
                          /\ CallNested([g EXCEPT !.ns_recs = nearest_ns, !.ns_idx = 1],
                                        "seed_wait", nearest_ns[1], TRUE)
                          /\ hist' = [hist EXCEPT !.nested = Once(@)]
                          /\ UNCHANGED default_header
  /\ UNCHANGED <<cache, root_srv, io, kept, limit>>

\* the call on whose behalf send_query runs (none when it was called directly)
Caller == IF stack = <<>> THEN NoFrame ELSE Top

\* lines 106-107 as they would read if a timeout ended send_query
OnTimeout_GivesUp(s) ==
  [s EXCEPT !.status = "done", !.outcome = "none", !.touts = @ + 1]

\* send_query, lines 106-107: the receive timed out, the loop goes on to the
\* next server
OnTimeout(s) ==
  [s EXCEPT !.status = "loop", !.idx = @ + 1, !.touts = @ + 1, !.buffered = FALSE]

\* send_query, lines 93-97 and 108-109: one turn of the loop over the servers
SendTo ==
  /\ sq.status = "loop"
  /\ IF sq.idx > (IF sq.recs THEN Len(sq.roots) ELSE Len(sq.servers))
     THEN \* lines 108-109
          /\ sq' = [sq EXCEPT !.status = "done", !.outcome = "none"]
          /\ UNCHANGED <<stack, ret, hist>>
     ELSE IF sq.recs
     THEN \* the server is a DNSRecord of the root list: sendto rejects the address
          /\ sq' = [sq EXCEPT !.status = "done", !.outcome = "raised"]
          /\ Raise(Caller, "sendto_record")
          /\ UNCHANGED hist
     ELSE IF sq.servers[sq.idx] = <<>>
     THEN \* lines 94-95
          /\ sq' = [sq EXCEPT !.idx = @ + 1]
          /\ UNCHANGED <<stack, ret, hist>>
     ELSE \* line 97
          /\ sq' = [sq EXCEPT !.status = "recv", !.buffered = FALSE,
                              !.dests = Append(@, sq.servers[sq.idx])]
          /\ hist' = [hist EXCEPT !.sent = Inc(@)]
          /\ UNCHANGED <<stack, ret>>
  /\ UNCHANGED <<cache, root_srv, io, kept, default_header, limit>>

\* lines 100-103: a datagram of 1024 bytes arrived, recv is called again
RecvFull ==
  /\ sq.status = "recv"
  /\ ~sq.buffered
  /\ sq' = [sq EXCEPT !.buffered = TRUE]
  /\ UNCHANGED <<cache, root_srv, io, kept, default_header, stack, ret, limit, hist>>

\* lines 100-105: a datagram of fewer than 1024 bytes arrived and the buffer
\* is decoded; DNSPacket.fromBytes returns a packet or raises
RecvShort ==
  /\ sq.status = "recv"
  /\ \E r \in Responses \cup {None} :
       IF r = None
       THEN /\ sq' = [sq EXCEPT !.status = "done", !.outcome = "raised"]
            /\ Raise(Caller, "decode")
       ELSE /\ sq' = [sq EXCEPT !.status = "done", !.outcome = "packet", !.result = r]
            /\ UNCHANGED <<stack, ret>>
  /\ UNCHANGED <<cache, root_srv, io, kept, default_header, limit, hist>>

\* lines 106-107: socket.timeout
Timeout ==
  /\ sq.status = "recv"
  /\ sq' = OnTimeout(sq)
  /\ hist' = [hist EXCEPT !.touts = Once(@)]
  /\ UNCHANGED <<cache, root_srv, io, kept, default_header, stack, ret, limit>>

\* line 146 as it would read if only SERVER_FAILURE ended the call
StopsOnRcode_OnlyServerFailure(response) == response.header.rcode = "SERVER_FAILURE"

\* line 146
StopsOnRcode(response) == response.header.rcode # "NO_ERROR"

\* lines 148-150 without line 150
CacheResponse_NoAdditional(c, response) ==
  cache_records(cache_records(c, response.answer_records), response.authority_records)

\* lines 148-150
CacheResponse(c, response) ==
  cache_records(cache_records(cache_records(c, response.answer_records),
                              response.authority_records),
                response.additional_records)

RECURSIVE NsNames(_)
\* lines 154-161
NsNames(records) ==
  IF records = <<>> THEN <<>>
  ELSE LET record == Head(records)
       IN (IF record.qtype = "NS" THEN <<record.rdata>>
           ELSE IF record.qtype = "SOA" THEN <<record.rdata.mname>>
           ELSE <<>>) \o NsNames(Tail(records))

NsList(response) == NsNames(response.authority_records \o response.additional_records)

\* recursive_query, lines 143-173: what the call does with send_query's result
Handle ==
  /\ stack # <<>>
  /\ Top.pc = "query"
  /\ sq.status = "done"
  /\ IF sq.outcome = "none"
     THEN \* lines 144-145
          /\ Return(Top, "none", None, "no_response")
          /\ UNCHANGED <<cache, sq, hist>>
     ELSE
       LET response == sq.result
           f == [Top EXCEPT !.response = response,
                            !.errd = (response.header.rcode # "NO_ERROR")]
       IN IF StopsOnRcode(response)
          THEN \* lines 146-147
               /\ Return(f, "none", None, "rcode")
               /\ UNCHANGED <<cache, sq, hist>>
          ELSE
            LET c == CacheResponse(cache, response)
                ns_list == NsList(response)
                servers == CachedAddresses(c, ns_list)
            IN /\ cache' = c
               /\ IF response.header.ancount > 0
                  THEN \* lines 151-152
                       /\ Return(f, "packet", response, "answer")
                       /\ UNCHANGED <<sq, hist>>
                  ELSE IF Len(ns_list) = 0
                  THEN \* lines 162-163
                       /\ Return(f, "none", None, "no_ns")
                       /\ UNCHANGED <<sq, hist>>
                  ELSE IF servers # <<>>
                  THEN \* lines 168-169, then 142-143
                       /\ WhileServers([f EXCEPT !.ns_list = ns_list, !.ns_idx = 0],
                                       servers, "glue")
                       /\ hist' = [hist EXCEPT !.refs = Inc(@)]
                  ELSE \* lines 170-173
                       /\ CallNested([f EXCEPT !.servers = <<>>, !.ns_list = ns_list,
                                               !.ns_idx = 1],
                                     "ref_wait", ns_list[1], FALSE)
                       /\ hist' = [hist EXCEPT !.refs = Inc(@), !.nested = Once(@)]
  /\ UNCHANGED <<root_srv, io, kept, default_header, limit>>

\* recursive_query, lines 137-140 and 173-176: the nested call has ended and
\* its answer_records are read
AfterNested ==
  /\ stack # <<>>
  /\ Top.pc \in {"seed_wait", "ref_wait"}
  /\ LET f == Top
     IN IF ret.kind = "none"
        THEN \* None has no answer_records
             /\ Raise(f, "none_answer_records")
             /\ UNCHANGED <<sq, hist>>
        ELSE LET records == ret.pkt.answer_records
             IN IF records # <<>>
                THEN \* lines 138-140, 174-176
                     /\ WhileServers(f, RdataOf(records), "nested")
                     /\ UNCHANGED hist
                ELSE IF f.pc = "seed_wait" /\ f.ns_idx < Len(f.ns_recs)
                THEN /\ CallNested([f EXCEPT !.ns_idx = @ + 1], f.pc,
                                   f.ns_recs[f.ns_idx + 1], TRUE)
                     /\ hist' = [hist EXCEPT !.nested = Once(@)]
                ELSE IF f.pc = "ref_wait" /\ f.ns_idx < Len(f.ns_list)
                THEN /\ CallNested([f EXCEPT !.ns_idx = @ + 1], f.pc,
                                   f.ns_list[f.ns_idx + 1], FALSE)
                     /\ hist' = [hist EXCEPT !.nested = Once(@)]
                ELSE /\ WhileServers(f, <<>>, "nested")
                     /\ UNCHANGED hist
  /\ UNCHANGED <<cache, root_srv, io, kept, default_header, limit>>

Next ==
  \/ CallRecursiveQuery
  \/ CallSendQuery
  \/ Entry
  \/ SendTo
  \/ RecvFull
  \/ RecvShort
  \/ Timeout
  \/ Handle
  \/ AfterNested

Spec == Init /\ [][Next]_vars

(***************************************************************************)
(* A second specification: the steps of the program are taken as long as   *)
(* they can be (the interpreter runs; a blocked receive ends with a        *)
(* datagram or with the socket's timeout).  Nothing obliges a caller to    *)
(* start a call, nor the network to deliver a 1024-byte datagram.          *)
(* Entry can be taken exactly in the states EntryReady and Handle exactly  *)
(* in the states HandleReady, and both always change the state; their weak *)
(* fairness is written with these predicates in place of ENABLED.          *)
(***************************************************************************)
EntryReady == stack # <<>> /\ Top.pc = "entry"
HandleReady == stack # <<>> /\ Top.pc = "query" /\ sq.status = "done"

FairSpec ==
  /\ Spec
  /\ WF_vars(SendTo)
  /\ WF_vars(Timeout \/ RecvShort)
  /\ WF_vars(AfterNested)
  /\ ([]<>(~EntryReady) \/ []<><<Entry>>_vars)
  /\ ([]<>(~HandleReady) \/ []<><<Handle>>_vars)

(***************************************************************************)
(* The specification of the callers that hold on to a packet: Spec with    *)
(* the step of a caller that keeps the packet its call has just returned   *)
(* from the cache (line 123).  That packet is made of the header that is   *)
(* the default argument of DNSPacket.__init__ and of the list that         *)
(* __check_cache returned, which is the list of the cache.  (A response is *)
(* made of the objects DNSPacket.fromBytes created for it, which nothing   *)
(* else refers to.)                                                        *)
(***************************************************************************)
\* the caller keeps the packet that its recursive_query call returned from
\* the cache: name and qtype tell the list of the cache that is its answer
\* list
KeepPacket ==
  /\ stack = <<>>
  /\ ret.kind = "packet"
  /\ ret.via = "cache"
  /\ ~kept.has
  /\ kept' = [has |-> TRUE, pkt |-> ret.pkt,
              name |-> sanitize_domain(ret.arg), qtype |-> ret.qtype]
  /\ UNCHANGED <<cache, root_srv, io, default_header, stack, sq, ret, limit, hist>>

\* the packet the caller holds as it is now: the fields of the objects it is
\* made of
KeptNow ==
  [kept.pkt EXCEPT !.header = default_header,
                   !.answer_records = cache[kept.name][kept.qtype]]

KeepNext == Next \/ KeepPacket

KeepSpec == Init /\ [][KeepNext]_vars

(***************************************************************************)
(* A third specification: the cache alone.  Starting from the cache as the *)
(* hints loader leaves it, __cache_records is called with packets of two   *)
(* records drawn from CacheInputs (the same record twice included).        *)
(***************************************************************************)
nm_a == <<"a", ".">>
nm_ba == <<"b", ".", "a", ".">>
nm_BA == <<".", "B", ".", "A">>
nm_cba == <<"c", ".", "b", ".", "a", ".">>
nm_ca == <<"c", ".", "a", ".">>
nm_d == <<"d", ".">>

\* DNSRecord.__init__ at the time now: line 363 sets creation_time
DNSRecordAt(name, qtype, ttl, rdata, now) ==
  [name |-> name, qtype |-> qtype, qclass |-> "IN", ttl |-> ttl, rdata |-> rdata,
   creation_time |-> now]

K_root == DNSRecordAt(nm_root, "NS", 60, nm_r, 0)
K_a == DNSRecordAt(nm_a, "NS", 60, nm_n, 0)
K_ba == DNSRecordAt(nm_ba, "NS", 60, nm_n, 0)
K_BA == DNSRecordAt(nm_BA, "NS", 60, nm_n, 0)
A_1 == DNSRecordAt(nm_a, "A", 60, ip1, 0)
A_1later == DNSRecordAt(nm_a, "A", 60, ip1, 1)
A_ttl == DNSRecordAt(nm_a, "A", 61, ip1, 0)
A_rdata == DNSRecordAt(nm_a, "A", 60, ip9, 0)

CacheInputs == {K_root, K_a, K_ba, K_BA, A_1, A_1later, A_ttl, A_rdata}

\* DNSResolver.__cache_records called with a list of two records
CacheInsert ==
  /\ \E r1 \in CacheInputs, r2 \in CacheInputs :
       cache' = cache_records(cache, <<r1, r2>>)
  /\ UNCHANGED <<root_srv, io, kept, default_header, stack, sq, ret, limit, hist>>

CacheSpec == Init /\ [][CacheInsert]_vars

(***************************************************************************)
(* The wire format (DNSPacket.py).  A bytes object is a sequence of        *)
(* numbers 0..255; offsets are those of the code (from 0), so byte i of    *)
(* data is data[i + 1].  A call that raises gives Raised, or RaisedBytes   *)
(* where it would have returned bytes.                                     *)
(***************************************************************************)
RaisedBytes == <<-1>>

RECURSIVE BitAnd(_, _)
\* a & b
BitAnd(a, b) ==
  IF a = 0 \/ b = 0 THEN 0
  ELSE (a % 2) * (b % 2) + 2 * BitAnd(a \div 2, b \div 2)

RECURSIVE BitOr(_, _)
\* a | b
BitOr(a, b) ==
  IF a = 0 THEN b
  ELSE IF b = 0 THEN a
  ELSE (IF a % 2 = 1 \/ b % 2 = 1 THEN 1 ELSE 0) + 2 * BitOr(a \div 2, b \div 2)

\* a << n and a >> n
Shl(a, n) == a * 2^n
Shr(a, n) == a \div 2^n

\* struct.pack(">H", n) and struct.pack(">I", n)
PackH(n) == <<n \div 256, n % 256>>
PackI(n) == <<n \div 16777216, (n \div 65536) % 256, (n \div 256) % 256, n % 256>>

\* struct.unpack(">H", ...) and struct.unpack(">I", ...) of the bytes at offset
UnpackH(data, offset) == data[offset + 1] * 256 + data[offset + 2]
UnpackI(data, offset) ==
  data[offset + 1] * 16777216 + data[offset + 2] * 65536
    + data[offset + 3] * 256 + data[offset + 4]

\* the members of the enumerations of lines 7-58, in the order of their values
QR == <<"QUERY", "RESPONSE">>
OPCODE == <<"QUERY", "IQUERY", "STATUS">>
AA == <<"NOT_AUTHORITATIVE", "AUTHORITATIVE">>
TC == <<"NOT_TRUNCATED", "TRUNCATED">>
RD == <<"NO_RECURSION", "RECURSION">>
RA == <<"NO_RECURSION_AVAILABLE", "RECURSION_AVAILABLE">>
Z == <<"RESERVED">>
AD == <<"NOT_AUTHENTICATED", "AUTHENTICATED">>
CD == <<"NO_CHECK", "CHECK">>
RCODE == <<"NO_ERROR", "FORMAT_ERROR", "SERVER_FAILURE", "NAME_ERROR",
           "NOT_IMPLEMENTED", "REFUSED">>

\* member.value
EnumValue(enum, member) == (CHOOSE i \in 1..Len(enum) : enum[i] = member) - 1
\* Enum(value) is defined: it does not raise ValueError
IsEnumValue(enum, value) == value + 1 \in 1..Len(enum)
\* Enum(value)
EnumMember(enum, value) == enum[value + 1]

\* DNSHeader.toBytes
DNSHeader_toBytes(h) ==
  PackH(h.id)
    \o PackH(BitOr(Shl(EnumValue(QR, h.qr), 15),
             BitOr(Shl(EnumValue(OPCODE, h.opcode), 11),
             BitOr(Shl(EnumValue(AA, h.aa), 10),
             BitOr(Shl(EnumValue(TC, h.tc), 9),
             BitOr(Shl(EnumValue(RD, h.rd), 8),
             BitOr(Shl(EnumValue(RA, h.ra), 7),
             BitOr(Shl(EnumValue(Z, h.z), 6),
             BitOr(Shl(EnumValue(AD, h.ad), 5),
             BitOr(Shl(EnumValue(CD, h.cd), 4),
                   EnumValue(RCODE, h.rcode)))))))))))
    \o PackH(h.qdcount) \o PackH(h.ancount) \o PackH(h.nscount) \o PackH(h.arcount)

\* DNSHeader.fromBytes, with the masks and shifts of lines 183-192
DNSHeader_fromBytes(full_data) ==
  IF Len(full_data) < 12 THEN Raised   \* struct.error
  ELSE
    LET flags == UnpackH(full_data, 2)
        qr == Shr(BitAnd(flags, 32768), 15)
        opcode == Shr(BitAnd(flags, 30720), 11)
        aa == Shr(BitAnd(flags, 1024), 10)
        tc == Shr(BitAnd(flags, 512), 9)
        rd == Shr(BitAnd(flags, 256), 8)
        ra == Shr(BitAnd(flags, 128), 7)
        z == Shr(BitAnd(flags, 112), 6)
        ad == Shr(BitAnd(flags, 8), 5)
        cd == Shr(BitAnd(flags, 4), 4)
        rcode == BitAnd(flags, 15)
    IN IF ~(/\ IsEnumValue(QR, qr) /\ IsEnumValue(OPCODE, opcode)
            /\ IsEnumValue(AA, aa) /\ IsEnumValue(TC, tc) /\ IsEnumValue(RD, rd)
            /\ IsEnumValue(RA, ra) /\ IsEnumValue(Z, z) /\ IsEnumValue(AD, ad)
            /\ IsEnumValue(CD, cd) /\ IsEnumValue(RCODE, rcode))
       THEN Raised   \* ValueError
       ELSE [id |-> UnpackH(full_data, 0),
             qr |-> EnumMember(QR, qr), opcode |-> EnumMember(OPCODE, opcode),
             aa |-> EnumMember(AA, aa), tc |-> EnumMember(TC, tc),
             rd |-> EnumMember(RD, rd), ra |-> EnumMember(RA, ra),
             z |-> EnumMember(Z, z), ad |-> EnumMember(AD, ad),
             cd |-> EnumMember(CD, cd), rcode |-> EnumMember(RCODE, rcode),
             qdcount |-> UnpackH(full_data, 4), ancount |-> UnpackH(full_data, 6),
             nscount |-> UnpackH(full_data, 8), arcount |-> UnpackH(full_data, 10)]

\* the characters of the names of the model and their codes
Alphabet == <<"a", "n", "r", "x", "0", "1", "9">>
Codes == <<97, 110, 114, 120, 48, 49, 57>>
\* str.encode() and bytes.decode()
Encode(str) == [i \in 1..Len(str) |-> Codes[CHOOSE j \in 1..Len(Alphabet) : Alphabet[j] = str[i]]]
Decode(bytes) == [i \in 1..Len(bytes) |-> Alphabet[CHOOSE j \in 1..Len(Codes) : Codes[j] = bytes[i]]]

\* full_data[from:to]
Slice(full_data, from, to) ==
  SubSeq(full_data, from + 1, IF to < Len(full_data) THEN to ELSE Len(full_data))

RECURSIVE PartsToBytes(_)
PartsToBytes(parts) ==
  IF parts = <<>> THEN <<>>
  ELSE <<Len(Head(parts))>> \o Encode(Head(parts)) \o PartsToBytes(Tail(parts))

\* DNSComponent._nameToBytes
nameToBytes(name) == PartsToBytes(split(name))

RECURSIVE readNameLoop(_, _, _, _, _, _)
\* the loop of DNSComponent._readNameFromBytes: (name, start_offset) or Raised.
\* The calls made for compression pointers nest; ptrs holds the targets of
\* the pointers followed by the calls that are active.  A target followed a
\* second time makes the same call again, so the nesting never ends and the
\* interpreter raises RecursionError; the targets are single bytes, so any
\* other nesting is less than 256 deep.
readNameLoop(full_data, offset, limitBytes, start_offset, name, ptrs) ==
  IF offset + start_offset >= Len(full_data) THEN Raised   \* IndexError
  ELSE IF /\ full_data[offset + start_offset + 1] # 0
          /\ (limitBytes = -1 \/ start_offset < limitBytes)
  THEN LET lenght == full_data[offset + start_offset + 1]
           at == start_offset + 1
       IN IF lenght = 192
          THEN IF offset + at >= Len(full_data) THEN Raised   \* IndexError
               ELSE IF full_data[offset + at + 1] \in ptrs THEN Raised   \* RecursionError
               ELSE LET target == full_data[offset + at + 1]
                        ptr == readNameLoop(full_data, target, -1, 0, <<>>, ptrs \cup {target})
                    IN IF IsRaised(ptr) THEN Raised
                       ELSE [name |-> name \o ptr.name, len |-> at + 1]
          ELSE readNameLoop(full_data, offset, limitBytes, at + lenght,
                            name \o Decode(Slice(full_data, offset + at, offset + at + lenght))
                                 \o <<".">>, ptrs)
  ELSE [name |-> name, len |-> start_offset + 1]

\* DNSComponent._readNameFromBytes
readNameFromBytes(full_data, offset, limitBytes) ==
  readNameLoop(full_data, offset, limitBytes, 0, <<>>, {})

\* QTYPE: member.value, whether QTYPE(value) is defined, and QTYPE(value)
QTYPEValue(qtype) ==
  CASE qtype = "A" -> 1 [] qtype = "NS" -> 2 [] qtype = "CNAME" -> 5
    [] qtype = "SOA" -> 6 [] qtype = "PTR" -> 12 [] qtype = "AAAA" -> 28
IsQTYPEValue(value) == value \in {1, 2, 5, 6, 12, 28}
QTYPEMember(value) ==
  CASE value = 1 -> "A" [] value = 2 -> "NS" [] value = 5 -> "CNAME"
    [] value = 6 -> "SOA" [] value = 12 -> "PTR" [] value = 28 -> "AAAA"

\* DNSQuestion.toBytes (QCLASS.IN.value is 1)
DNSQuestion_toBytes(q) == nameToBytes(q.qname) \o PackH(QTYPEValue(q.qtype)) \o PackH(1)

RECURSIVE DNSQuestion_fromBytes(_, _, _, _)
\* DNSQuestion.fromBytes, from the offset reached with the questions read so
\* far: (questions, offset) or Raised
DNSQuestion_fromBytes(full_data, count, offset, questions) ==
  IF count = 0 THEN [list |-> questions, offset |-> offset]
  ELSE LET nm == readNameFromBytes(full_data, offset, -1)
       IN IF IsRaised(nm) THEN Raised
          ELSE LET o == offset + nm.len
               IN IF o + 4 > Len(full_data) THEN Raised   \* struct.error
                  ELSE IF ~IsQTYPEValue(UnpackH(full_data, o)) \/ UnpackH(full_data, o + 2) # 1
                  THEN Raised   \* ValueError
                  ELSE DNSQuestion_fromBytes(full_data, count - 1, o + 4,
                         Append(questions, DNSQuestion(nm.name, QTYPEMember(UnpackH(full_data, o)))))

\* SOARdata.fromBytes: (rdata, offset) or Raised
SOARdata_fromBytes(full_data, offset) ==
  LET mname == readNameFromBytes(full_data, offset, -1)
  IN IF IsRaised(mname) THEN Raised
     ELSE LET rname == readNameFromBytes(full_data, offset + mname.len, -1)
          IN IF IsRaised(rname) THEN Raised
             ELSE LET o == offset + mname.len + rname.len
                  IN IF o + 20 > Len(full_data) THEN Raised   \* struct.error
                     ELSE [rdata |-> SOARdata(mname.name, rname.name,
                                              UnpackI(full_data, o), UnpackI(full_data, o + 4),
                                              UnpackI(full_data, o + 8), UnpackI(full_data, o + 12),
                                              UnpackI(full_data, o + 16)),
                           offset |-> o + 20]

RECURSIVE Str(_)
\* str(n) of a number n >= 0
Str(n) ==
  LET digit == <<"0", "1", "2", "3", "4", "5", "6", "7", "8", "9">>[(n % 10) + 1]
  IN IF n < 10 THEN <<digit>> ELSE Str(n \div 10) \o <<digit>>

\* DNSRecord.toBytes: only the types whose rdata is a name are encoded
DNSRecord_toBytes(r) ==
  IF r.qtype \in {"NS", "CNAME", "PTR"}
  THEN LET rdata == nameToBytes(r.rdata)
       IN nameToBytes(r.name) \o PackH(QTYPEValue(r.qtype)) \o PackH(1)
            \o PackI(r.ttl) \o PackH(Len(rdata)) \o rdata
  ELSE RaisedBytes   \* NotImplementedError

RECURSIVE HexStr(_)
\* the hexadecimal digits of n >= 0, without leading zeros
HexStr(n) ==
  LET digit == <<"0", "1", "2", "3", "4", "5", "6", "7", "8", "9",
                 "a", "b", "c", "d", "e", "f">>[(n % 16) + 1]
  IN IF n < 16 THEN <<digit>> ELSE HexStr(n \div 16) \o <<digit>>

RECURSIVE ZerosAt(_, _)
\* the number of groups that are 0 from group i on
ZerosAt(groups, i) ==
  IF i > Len(groups) \/ groups[i] # 0 THEN 0 ELSE 1 + ZerosAt(groups, i + 1)

\* ipaddress.IPv6Address(...).compressed of the eight groups of an address:
\* the first longest run of two or more zero groups is written "::"
compressed(groups) ==
  LET runs == {i \in 1..Len(groups) : ZerosAt(groups, i) > 1}
      best == CHOOSE i \in runs : \A j \in runs :
                \/ ZerosAt(groups, j) < ZerosAt(groups, i)
                \/ ZerosAt(groups, j) = ZerosAt(groups, i) /\ i <= j
      hextets == [i \in 1..Len(groups) |-> HexStr(groups[i])]
      best_end == best + ZerosAt(groups, best)
  IN IF runs = {} THEN joinOn(hextets, ":")
     ELSE joinOn((IF best = 1 THEN << <<>> >> ELSE <<>>)
                   \o SubSeq(hextets, 1, best - 1) \o << <<>> >>
                   \o SubSeq(hextets, best_end, Len(groups))
                   \o (IF best_end > Len(groups) THEN << <<>> >> ELSE <<>>), ":")

\* lines 394-414: the rdata of a record and the length it takes, or Raised.
\* In the AAAA branch the string of lines 407-409 is an address only when
\* it has eight groups, that is for rdlen 15 or 16; the branch is modelled
\* for buffers that hold all the bytes of the rdata
Rdata_fromBytes(full_data, offset, qtype, rdlen) ==
  IF qtype \in {2, 5, 12}
  THEN LET nm == readNameFromBytes(full_data, offset, rdlen)
       IN IF IsRaised(nm) THEN Raised ELSE [rdata |-> nm.name, len |-> nm.len]
  ELSE IF qtype = 1
  THEN IF offset + 4 > Len(full_data) THEN Raised   \* IndexError
       ELSE [rdata |-> Str(full_data[offset + 1]) \o <<".">> \o Str(full_data[offset + 2])
                         \o <<".">> \o Str(full_data[offset + 3]) \o <<".">>
                         \o Str(full_data[offset + 4]),
             len |-> rdlen]
  ELSE IF qtype = 28
  THEN IF rdlen \notin {15, 16} \/ offset + rdlen > Len(full_data)
       THEN Raised   \* AddressValueError
       ELSE [rdata |-> compressed(
                         [i \in 1..8 |->
                            IF 2 * i > rdlen THEN full_data[offset + 2 * i - 1]
                            ELSE full_data[offset + 2 * i - 1] * 256 + full_data[offset + 2 * i]]),
             len |-> rdlen]
  ELSE IF qtype = 6
  THEN LET soa == SOARdata_fromBytes(full_data, offset)
       IN IF IsRaised(soa) THEN Raised
          ELSE [rdata |-> soa.rdata, len |-> soa.offset]
  ELSE Raised   \* QTYPE(qtype) at line 416: ValueError

RECURSIVE DNSRecord_fromBytes(_, _, _, _)
\* DNSRecord.fromBytes: (records, offset) or Raised
DNSRecord_fromBytes(full_data, count, offset, records) ==
  IF count = 0 THEN [list |-> records, offset |-> offset]
  ELSE LET nm == readNameFromBytes(full_data, offset, -1)
       IN IF IsRaised(nm) THEN Raised
          ELSE LET o == offset + nm.len
               IN IF o + 10 > Len(full_data) THEN Raised   \* struct.error
                  ELSE LET qtype == UnpackH(full_data, o)
                           qclass == UnpackH(full_data, o + 2)
                           ttl == UnpackI(full_data, o + 4)
                           rdlen == UnpackH(full_data, o + 8)
                           rd == Rdata_fromBytes(full_data, o + 10, qtype, rdlen)
                       IN IF IsRaised(rd) \/ qclass # 1 THEN Raised
                          ELSE DNSRecord_fromBytes(full_data, count - 1, o + 10 + rd.len,
                                 Append(records,
                                        DNSRecord(nm.name, QTYPEMember(qtype), ttl, rd.rdata)))

RECURSIVE ConcatBytes(_)
\* the concatenation of encodings, RaisedBytes if one of them is
ConcatBytes(encodings) ==
  IF encodings = <<>> THEN <<>>
  ELSE LET rest == ConcatBytes(Tail(encodings))
       IN IF Head(encodings) = RaisedBytes \/ rest = RaisedBytes THEN RaisedBytes
          ELSE Head(encodings) \o rest

\* DNSPacket.toBytes
DNSPacket_toBytes(p) ==
  ConcatBytes(<<DNSHeader_toBytes(p.header)>>
    \o [i \in 1..Len(p.question) |-> DNSQuestion_toBytes(p.question[i])]
    \o [i \in 1..Len(p.answer_records) |-> DNSRecord_toBytes(p.answer_records[i])]
    \o [i \in 1..Len(p.authority_records) |-> DNSRecord_toBytes(p.authority_records[i])]
    \o [i \in 1..Len(p.additional_records) |-> DNSRecord_toBytes(p.additional_records[i])])

\* DNSPacket.fromBytes: a packet or Raised
DNSPacket_fromBytes(data) ==
  LET header == DNSHeader_fromBytes(data)
  IN IF IsRaised(header) THEN Raised
     ELSE LET questions == DNSQuestion_fromBytes(data, header.qdcount, 12, <<>>)
          IN IF IsRaised(questions) THEN Raised
             ELSE LET answer == DNSRecord_fromBytes(data, header.ancount, questions.offset, <<>>)
                  IN IF IsRaised(answer) THEN Raised
                     ELSE LET authority == DNSRecord_fromBytes(data, header.nscount,
                                                               answer.offset, <<>>)
                          IN IF IsRaised(authority) THEN Raised
                             ELSE LET additional == DNSRecord_fromBytes(data, header.arcount,
                                                                        authority.offset, <<>>)
                                  IN IF IsRaised(additional) THEN Raised
                                     ELSE DNSPacket(header, questions.list, answer.list,
                                                    authority.list, additional.list)

(***************************************************************************)
(* The reverse lookups (DNSResolver.py lines 179-190).                     *)
(***************************************************************************)
\* seq[::-1] without the reversal
Reversed_Same(seq) == seq

\* seq[::-1]
Reversed(seq) == [i \in 1..Len(seq) |-> seq[Len(seq) + 1 - i]]

\* ipaddress.IPv6Address(ipv6).exploded for a valid literal without an
\* embedded IPv4 address: "::" stands for the groups that are missing, and
\* every group is written with four lower-case digits
exploded(ipv6) ==
  LET parts == splitOn(ipv6, ":")
      empty == {i \in 1..Len(parts) : parts[i] = <<>>}
      first == CHOOSE i \in empty : \A j \in empty : i <= j
      last == CHOOSE i \in empty : \A j \in empty : i >= j
      left == IF empty = {} THEN parts ELSE SubSeq(parts, 1, first - 1)
      right == IF empty = {} THEN <<>> ELSE SubSeq(parts, last + 1, Len(parts))
      groups == left \o [i \in 1..(8 - Len(left) - Len(right)) |-> <<"0">>] \o right
  IN joinOn([i \in 1..Len(groups) |->
               [j \in 1..(4 - Len(groups[i])) |-> "0"] \o lower(groups[i])], ":")

in_addr_arpa == <<".", "i", "n", "-", "a", "d", "d", "r", ".", "a", "r", "p", "a">>
ip6_arpa == <<".", "i", "p", "6", ".", "a", "r", "p", "a">>

\* DNSResolver.reverse_lookup_v4: the arguments it gives to recursive_query
reverse_lookup_v4(ipv4) ==
  [fqdn |-> joinOn(Reversed(splitOn(ipv4, ".")), ".") \o in_addr_arpa, qtype |-> "PTR"]

\* DNSResolver.reverse_lookup_v6: the arguments it gives to recursive_query
reverse_lookup_v6(ipv6) ==
  LET decompressed == exploded(ipv6)
      digits == SelectSeq(decompressed, LAMBDA ch : ch # ":")
      reversed == Reversed(digits)
  IN [fqdn |-> joinOn([i \in 1..Len(reversed) |-> <<reversed[i]>>], ".") \o ip6_arpa,
      qtype |-> "PTR"]

\* the IPv4 literals given to reverse_lookup_v4, each with its four octets
V4Addresses ==
  { [literal |-> <<"1", ".", "2", ".", "3", ".", "4">>,
     octets |-> <<<<"1">>, <<"2">>, <<"3">>, <<"4">>>>],
    [literal |-> <<"8", ".", "8", ".", "8", ".", "8">>,
     octets |-> <<<<"8">>, <<"8">>, <<"8">>, <<"8">>>>],
    [literal |-> <<"1", "9", "2", ".", "0", ".", "2", ".", "1", "0">>,
     octets |-> <<<<"1", "9", "2">>, <<"0">>, <<"2">>, <<"1", "0">>>>],
    [literal |-> <<"1", "0", ".", "0", ".", "0", ".", "1">>,
     octets |-> <<<<"1", "0">>, <<"0">>, <<"0">>, <<"1">>>>] }

\* the IPv6 literals given to reverse_lookup_v6, each with the 32 digits of
\* the address
V6Addresses ==
  { [literal |-> <<"2", "0", "0", "1", ":", "d", "b", "8", ":", ":", "1">>,
     nibbles |-> <<"2", "0", "0", "1", "0", "d", "b", "8", "0", "0", "0", "0", "0", "0", "0", "0", "0", "0", "0", "0", "0", "0", "0", "0", "0", "0", "0", "0", "0", "0", "0", "1">>],
    [literal |-> <<":", ":", "1">>,
     nibbles |-> <<"0", "0", "0", "0", "0", "0", "0", "0", "0", "0", "0", "0", "0", "0", "0", "0", "0", "0", "0", "0", "0", "0", "0", "0", "0", "0", "0", "0", "0", "0", "0", "1">>],
    [literal |-> <<"2", "0", "0", "1", ":", "D", "B", "8", ":", "0", ":", "0", ":", "8", ":", "8", "0", "0", ":", "2", "0", "0", "C", ":", "4", "1", "7", "A">>,
     nibbles |-> <<"2", "0", "0", "1", "0", "d", "b", "8", "0", "0", "0", "0", "0", "0", "0", "0", "0", "0", "0", "8", "0", "8", "0", "0", "2", "0", "0", "c", "4", "1", "7", "a">>],
    [literal |-> <<"f", "e", "8", "0", ":", ":">>,
     nibbles |-> <<"f", "e", "8", "0", "0", "0", "0", "0", "0", "0", "0", "0", "0", "0", "0", "0", "0", "0", "0", "0", "0", "0", "0", "0", "0", "0", "0", "0", "0", "0", "0", "0">>],
    [literal |-> <<":", ":">>,
     nibbles |-> <<"0", "0", "0", "0", "0", "0", "0", "0", "0", "0", "0", "0", "0", "0", "0", "0", "0", "0", "0", "0", "0", "0", "0", "0", "0", "0", "0", "0", "0", "0", "0", "0">>],
    [literal |-> <<"2", "0", "0", "1", ":", "0", "d", "b", "8", ":", "0", "0", "0", "0", ":", "0", "0", "0", "0", ":", "0", "0", "0", "0", ":", "0", "0", "0", "0", ":", "0", "0", "0", "0", ":", "0", "0", "0", "1">>,
     nibbles |-> <<"2", "0", "0", "1", "0", "d", "b", "8", "0", "0", "0", "0", "0", "0", "0", "0", "0", "0", "0", "0", "0", "0", "0", "0", "0", "0", "0", "0", "0", "0", "0", "1">>] }

(***************************************************************************)
(* A fourth specification: single calls of the functions of DNSPacket.py,  *)
(* of the hints loader and of the reverse lookups, each on an argument     *)
(* drawn from a set.                                                       *)
(***************************************************************************)
\* the 16-bit values the id and the counts of a header are drawn from
Words == {0, 258, 65535}

\* every header whose fields are members of the enumerations
AllHeaders ==
  [id : Words, qr : {QR[i] : i \in 1..Len(QR)},
   opcode : {OPCODE[i] : i \in 1..Len(OPCODE)},
   aa : {AA[i] : i \in 1..Len(AA)}, tc : {TC[i] : i \in 1..Len(TC)},
   rd : {RD[i] : i \in 1..Len(RD)}, ra : {RA[i] : i \in 1..Len(RA)},
   z : {Z[i] : i \in 1..Len(Z)}, ad : {AD[i] : i \in 1..Len(AD)},
   cd : {CD[i] : i \in 1..Len(CD)}, rcode : {RCODE[i] : i \in 1..Len(RCODE)},
   qdcount : {0, 65535}, ancount : {0, 258}, nscount : {0}, arcount : {0, 65535}]

\* the largest number of fields in which a header given to toBytes differs
\* from DNSHeader()
MaxChanged == 2

Headers ==
  {h \in AllHeaders :
     Cardinality({f \in DOMAIN h : h[f] # DNSHeader[f]}) <= MaxChanged}

\* records of the six supported types
W_ns == DNSRecord(nm_x, "NS", 60, nm_n)
W_cname == DNSRecord(nm_n, "CNAME", 65536, nm_x)
W_ptr == DNSRecord(nm_x, "PTR", 0, <<"n", ".", "x", ".">>)
W_a == DNSRecord(nm_x, "A", 60, <<"9", ".", "9", ".", "9", ".", "9">>)
W_aaaa == DNSRecord(nm_x, "AAAA", 60, ip6)
W_soa == DNSRecord(nm_x, "SOA", 60, SOARdata(nm_n, nm_r, 1, 2, 3, 4, 5))

\* the record sections the packets given to toBytes are built from
Sections ==
  << <<>>, <<W_ns>>, <<W_cname>>, <<W_ptr>>, <<W_ns, W_ptr>>, <<W_a>>, <<W_aaaa>>, <<W_soa>>,
     <<W_ns, W_a>> >>

\* a response as a server sends it: id 0, flags 0x8180, the question x. A and
\* the answer x. A 60 9.9.9.9 with its name as a pointer to offset 12
Datagram ==
  <<0, 0, 129, 128, 0, 1, 0, 1, 0, 0, 0, 0>>
    \o <<1, 120, 0, 0, 1, 0, 1>>
    \o <<192, 12, 0, 1, 0, 1, 0, 0, 0, 60, 0, 4, 9, 9, 9, 9>>

\* the packet DNSPacket.fromBytes builds from Datagram
DatagramPacket ==
  DNSPacket([DNSHeader EXCEPT !.qr = "RESPONSE", !.rd = "RECURSION",
                              !.ra = "RECURSION_AVAILABLE"],
            <<DNSQuestion(nm_x, "A")>>,
            <<DNSRecord(nm_x, "A", 60, <<"9", ".", "9", ".", "9", ".", "9">>)>>,
            <<>>, <<>>)

\* Datagram with the type of its answer record replaced by 99
DatagramUnknownType == [Datagram EXCEPT ![23] = 99]

\* the datagrams given to DNSPacket.fromBytes: Datagram, every prefix of it,
\* and DatagramUnknownType
Datagrams == {SubSeq(Datagram, 1, n) : n \in 0..Len(Datagram)} \cup {DatagramUnknownType}

\* hints files: the one of the model; one with a comment, a line of three
\* fields and a second root server; one whose root server has no AAAA line;
\* one whose root server has no A line; one with the NS lines last
HintFiles ==
  << HintLines,
     << << <<";">>, <<"c">>, <<"o">>, <<"m">> >>,
        <<nm_root, 3600, "ns", nm_r>>,
        <<nm_root, 3600, "ns", nm_N>>,
        <<nm_r, 3600, "a", ip0>>,
        << <<"f">>, <<"g">>, <<"h">> >>,
        <<nm_r, 3600, "aaaa", ip6>>,
        <<nm_n, 60, "a", ip1>>,
        <<nm_n, 60, "a", ip9>>,
        <<nm_n, 60, "aaaa", ip6>> >>,
     << <<nm_root, 3600, "ns", nm_r>>,
        <<nm_r, 3600, "a", ip0>> >>,
     << <<nm_root, 3600, "ns", nm_r>>,
        <<nm_r, 3600, "aaaa", ip6>> >>,
     << <<nm_r, 3600, "a", ip0>>,
        <<nm_r, 3600, "aaaa", ip6>>,
        <<nm_root, 3600, "ns", nm_r>> >> >>

\* the twelve bytes of a header before the names of NameBuffers
Pad == <<0, 0, 0, 0, 0, 0, 0, 0, 0, 0, 0, 0>>

\* buffers given to _readNameFromBytes with the offset of the name to read:
\* names that are labels, a pointer and labels followed by a pointer; a
\* pointer to itself, two pointers to each other and a label followed by a
\* pointer to it; a pointer past the end of the buffer, a pointer cut off and
\* a label cut off
NameBuffers ==
  { [data |-> Pad \o <<1, 120, 0>>, offset |-> 12, kind |-> "ok"],
    [data |-> Pad \o <<1, 120, 0, 192, 12>>, offset |-> 15, kind |-> "ok"],
    [data |-> Pad \o <<1, 120, 0, 1, 110, 192, 12>>, offset |-> 15, kind |-> "ok"],
    [data |-> Pad \o <<1, 120, 0, 192, 12, 1, 110, 192, 15>>, offset |-> 17, kind |-> "ok"],
    [data |-> Pad \o <<192, 12>>, offset |-> 12, kind |-> "cycle"],
    [data |-> Pad \o <<192, 14, 192, 12>>, offset |-> 12, kind |-> "cycle"],
    [data |-> Pad \o <<192, 14, 192, 12>>, offset |-> 14, kind |-> "cycle"],
    [data |-> Pad \o <<1, 120, 192, 12>>, offset |-> 12, kind |-> "cycle"],
    [data |-> Pad \o <<1, 120, 0, 192, 80>>, offset |-> 15, kind |-> "outside"],
    [data |-> Pad \o <<192, 14>>, offset |-> 12, kind |-> "outside"],
    [data |-> Pad \o <<1, 120, 192>>, offset |-> 12, kind |-> "cut"],
    [data |-> Pad \o <<1, 120>>, offset |-> 12, kind |-> "cut"],
    [data |-> Pad \o <<5, 120>>, offset |-> 12, kind |-> "cut"] }

\* names given to _nameToBytes: with and without a trailing dot, and the root
Names ==
  { <<"x", ".">>, <<"x">>, <<".">>, <<"n", ".", "x", ".">>, <<"n", ".", "x">>,
    <<"a", ".", "n", ".", "x", ".">>, <<"x", "n", ".", "a", ".">>, <<"x", "n", ".", "a">> }

\* the question x. A as the bytes that follow the header: the name x. is at
\* offset 12 and the first record at offset 19
QuestionBytes == <<1, 120, 0, 0, 1, 0, 1>>
FirstRecordAt == 19

\* one record of each supported type as a server sends it: n. A 60 9.9.9.9,
\* x. NS 60 n., x. (a pointer) CNAME 60 x. (a pointer), x. PTR 0 n.x. (a
\* label and a pointer), x. AAAA 60 ::1 and x. SOA 60 n. r. 1 2 3 4 5
RecordBytes ==
  << <<1, 110, 0, 0, 1, 0, 1, 0, 0, 0, 60, 0, 4, 9, 9, 9, 9>>,
     <<1, 120, 0, 0, 2, 0, 1, 0, 0, 0, 60, 0, 3, 1, 110, 0>>,
     <<192, 12, 0, 5, 0, 1, 0, 0, 0, 60, 0, 2, 192, 12>>,
     <<1, 120, 0, 0, 12, 0, 1, 0, 0, 0, 0, 0, 4, 1, 110, 192, 12>>,
     <<1, 120, 0, 0, 28, 0, 1, 0, 0, 0, 60, 0, 16,
       0, 0, 0, 0, 0, 0, 0, 0, 0, 0, 0, 0, 0, 0, 0, 1>>,
     <<1, 120, 0, 0, 6, 0, 1, 0, 0, 0, 60, 0, 26, 1, 110, 0, 1, 114, 0,
       0, 0, 0, 1, 0, 0, 0, 2, 0, 0, 0, 3, 0, 0, 0, 4, 0, 0, 0, 5>> >>

\* the records DNSRecord.fromBytes is to make of them
RecordsSent ==
  << DNSRecord(nm_n, "A", 60, <<"9", ".", "9", ".", "9", ".", "9">>),
     DNSRecord(nm_x, "NS", 60, nm_n),
     DNSRecord(nm_x, "CNAME", 60, nm_x),
     DNSRecord(nm_x, "PTR", 0, <<"n", ".", "x", ".">>),
     DNSRecord(nm_x, "AAAA", 60, ip6),
     DNSRecord(nm_x, "SOA", 60, SOARdata(nm_n, <<"r", ".">>, 1, 2, 3, 4, 5)) >>

\* what follows the records in the buffer: nothing, or the 48 zero bytes of
\* further sections
Trailers == << <<>>, [i \in 1..48 |-> 0] >>

\* the arguments of DNSRecord.fromBytes(full_data, count, offset) for the
\* records numbered by which, followed by a trailer; end is the index of the
\* first byte after the last of them
RecordBuffer(which, trailer) ==
  LET bytes == IF Len(which) = 1 THEN RecordBytes[which[1]]
               ELSE RecordBytes[which[1]] \o RecordBytes[which[2]]
  IN [data |-> Pad \o QuestionBytes \o bytes \o trailer,
      count |-> Len(which),
      offset |-> FirstRecordAt,
      end |-> FirstRecordAt + Len(bytes),
      sent |-> [k \in 1..Len(which) |-> RecordsSent[which[k]]]]

Call(op, arg) == [op |-> op, arg |-> arg, out |-> None, done |-> FALSE]

PureInit ==
  /\ cache = Construct.cache
  /\ root_srv = Construct.root_srv
  /\ default_header = DNSHeader
  /\ stack = <<>>
  /\ sq = IdleSq
  /\ ret = PendingRet
  /\ limit = DefaultRecursionLimit
  /\ hist = NoHist
  /\ kept = NoKept
  /\ \/ \E h \in Headers : io = Call("header", h)
     \/ \E qr \in {"QUERY", "RESPONSE"}, q \in 0..1, an \in 1..Len(Sections),
           ns \in 1..Len(Sections), ar \in 1..Len(Sections) :
          io = Call("packet",
                    DNSPacket([DNSHeader EXCEPT !.qr = qr],
                              IF q = 0 THEN <<>> ELSE <<DNSQuestion(nm_x, "NS")>>,
                              Sections[an], Sections[ns], Sections[ar]))
     \/ \E data \in Datagrams : io = Call("datagram", data)
     \/ \E i \in 1..Len(HintFiles) : io = Call("hints", HintFiles[i])
     \/ \E a \in V4Addresses : io = Call("v4", a)
     \/ \E a \in V6Addresses : io = Call("v6", a)
     \/ \E b \in NameBuffers : io = Call("readname", b)
     \/ \E i \in 1..Len(RecordBytes), j \in 0..Len(RecordBytes), t \in 1..Len(Trailers) :
          io = Call("records", RecordBuffer(IF j = 0 THEN <<i>> ELSE <<i, j>>, Trailers[t]))
     \/ \E name \in Names : io = Call("name", name)

Returns(out) ==
  /\ ~io.done
  /\ io' = [io EXCEPT !.out = out, !.done = TRUE]
  /\ UNCHANGED <<cache, root_srv, kept, default_header, stack, sq, ret, limit, hist>>

\* DNSHeader.fromBytes(h.toBytes())
HeaderRoundTrip ==
  /\ io.op = "header"
  /\ Returns(DNSHeader_fromBytes(DNSHeader_toBytes(io.arg)))

\* P.toBytes(): the bytes are kept in io.out for fromBytes, and an exception
\* ends the round trip
PacketToBytes ==
  /\ io.op = "packet"
  /\ LET data == DNSPacket_toBytes(io.arg)
     IN IF data = RaisedBytes
        THEN Returns(Raised)
        ELSE /\ ~io.done
             /\ io' = [io EXCEPT !.op = "encoded", !.out = data]
             /\ UNCHANGED <<cache, root_srv, kept, default_header, stack, sq, ret, limit, hist>>

\* DNSPacket.fromBytes(buffer): of the bytes toBytes gave, and of a server's
\* datagram (line 105 of send_query)
DecodeDatagram ==
  /\ io.op \in {"encoded", "datagram"}
  /\ Returns(DNSPacket_fromBytes(IF io.op = "encoded" THEN io.out ELSE io.arg))

\* DNSResolver.__init__(root_file): the cache and the root server lists
\* after __loadRootNS
LoadHints ==
  /\ io.op = "hints"
  /\ Returns(loadRootNS(io.arg))

\* the question a recursive_query(fqdn, qtype) asks: line 120 sanitizes the
\* name, lines 143 and 86 put it in the question
Asks(call) == [fqdn |-> call.fqdn, qtype |-> call.qtype, qname |-> sanitize_domain(call.fqdn)]

\* DNSResolver.reverse_lookup_v4(ipv4)
ReverseLookupV4 ==
  /\ io.op = "v4"
  /\ Returns(Asks(reverse_lookup_v4(io.arg.literal)))

\* DNSResolver.reverse_lookup_v6(ipv6)
ReverseLookupV6 ==
  /\ io.op = "v6"
  /\ Returns(Asks(reverse_lookup_v6(io.arg.literal)))

\* DNSComponent._readNameFromBytes(full_data, offset)
ReadName ==
  /\ io.op = "readname"
  /\ Returns(readNameFromBytes(io.arg.data, io.arg.offset, -1))

\* DNSComponent._nameToBytes(name), and _readNameFromBytes of its bytes
NameRoundTrip ==
  /\ io.op = "name"
  /\ LET bytes == nameToBytes(io.arg)
     IN Returns([bytes |-> bytes, read |-> readNameFromBytes(bytes, 0, -1)])

\* DNSRecord.fromBytes(full_data, count, offset)
RecordsFromBytes ==
  /\ io.op = "records"
  /\ Returns(DNSRecord_fromBytes(io.arg.data, io.arg.count, io.arg.offset, <<>>))

PureNext ==
  \/ HeaderRoundTrip
  \/ PacketToBytes
  \/ DecodeDatagram
  \/ LoadHints
  \/ ReverseLookupV4
  \/ ReverseLookupV6
  \/ ReadName
  \/ NameRoundTrip
  \/ RecordsFromBytes

PureSpec == PureInit /\ [][PureNext]_vars

(***************************************************************************)
(* Properties.                                                             *)
(***************************************************************************)
IsError(response) == response # None /\ response.header.rcode # "NO_ERROR"
IsNoError(response) == response # None /\ response.header.rcode = "NO_ERROR"

\* C1: a recursive_query call that received a response whose rcode is not
\* NO_ERROR returns that very response packet to its caller.
C1_ErrorResponseReturned ==
  (ret.kind \in {"none", "packet"} /\ IsError(ret.response))
    => (ret.kind = "packet" /\ ret.pkt = ret.response)

\* C2: a recursive_query call that has received a response whose rcode is not
\* NO_ERROR sends nothing more: no call that has received one is still
\* active (so none has a send_query in progress or a nested call running),
\* and the call that received it ended with the return of line 147.
C2_NoQueryAfterError ==
  /\ \A i \in 1..Len(stack) : ~stack[i].errd /\ ~IsError(stack[i].response)
  /\ (ret.kind \in {"none", "packet"} /\ IsError(ret.response)) => ret.via = "rcode"

\* an error response ended a call while a server of its list was still untried
C2_Witness ==
  /\ ret.via = "rcode"
  /\ ret.response.header.rcode = "NAME_ERROR"
  /\ sq.status = "done"
  /\ Len(sq.dests) < Len(sq.servers)

\* C3: recursive_query never raises, whatever the servers do (timeouts, error
\* rcodes, referrals with or without glue), in particular when a nested
\* NS-address resolution returns null: a call ends with null or a packet.
\* (An exception is left aside here only where it comes from a datagram that
\* cannot be decoded or from send_query called without servers.)
C3_NullOrPacket ==
  ret.kind = "raised" => ret.via \in {"decode", "sendto_record"}

\* C4: with a non-empty list cached for (sanitize(name), type), a top-level
\* recursive_query(name, type) sends no query and returns a packet with
\* qr = RESPONSE whose answer section is that list and whose ancount is its
\* length.
C4_CacheFastPath ==
  (stack = <<>> /\ ret.via = "cache") =>
    /\ hist.sent = 0
    /\ ret.kind = "packet"
    /\ ret.pkt.header.qr = "RESPONSE"
    /\ ret.pkt.answer_records = check_cache(cache, ret.arg, ret.qtype)
    /\ ret.pkt.answer_records # <<>>
    /\ ret.pkt.header.ancount = Len(ret.pkt.answer_records)

\* C4 without the qr field (what the code does establish)
C4_CacheFastPathButQr ==
  (stack = <<>> /\ ret.via = "cache") =>
    /\ hist.sent = 0
    /\ ret.kind = "packet"
    /\ ret.pkt.answer_records = check_cache(cache, ret.arg, ret.qtype)
    /\ ret.pkt.answer_records # <<>>
    /\ ret.pkt.header.ancount = Len(ret.pkt.answer_records)

\* C5: every recursive_query call eventually returns (a packet, null or an
\* exception), each send_query it makes having returned, whatever the servers
\* answer.
C5_Terminates == (stack # <<>>) ~> (stack = <<>>)

\* C6: a nested call is entered with recursion_count one more than its
\* caller's, the outermost with 0; no call is ever active with a
\* recursion_count above recursion_limit; a call whose recursion_count has
\* reached recursion_limit is never past line 118 (it reads no cache and
\* sends nothing), and it ended with the return None of line 119.
C6_DepthBounded ==
  /\ \A i \in 1..Len(stack) :
       /\ stack[i].count = i - 1
       /\ stack[i].count <= limit
       /\ stack[i].count >= limit => stack[i].pc = "entry"
  /\ (ret.kind # "pending" /\ ret.count >= limit)
       => (ret.kind = "none" /\ ret.via = "limit")

\* a chain of referrals without glue, each resolved by a nested call, reached
\* the recursion limit: the innermost call returned None at line 119
C6_Witness ==
  /\ limit >= 2
  /\ ret.via = "limit"
  /\ ret.count = limit
  /\ Len(stack) = limit
  /\ \A i \in 1..Len(stack) : stack[i].pc = "ref_wait"

RECURSIVE ConcatAll(_)
ConcatAll(seqs) == IF seqs = <<>> THEN <<>> ELSE Head(seqs) \o ConcatAll(Tail(seqs))

\* the A rdata the cache c holds for the NS names (and SOA mnames) of the
\* authority and additional sections of a response, in section order
GlueAddresses(c, response) ==
  LET records == SelectSeq(response.authority_records \o response.additional_records,
                           LAMBDA r : r.qtype \in {"NS", "SOA"})
      nameOf(r) == IF r.qtype = "NS" THEN r.rdata ELSE r.rdata.mname
      cachedA(name) ==
        LET k == strip(lower(name)) \o <<".">>
        IN IF k \in DOMAIN c /\ "A" \in DOMAIN c[k] THEN c[k]["A"] ELSE <<>>
  IN ConcatAll([i \in 1..Len(records) |->
                  [j \in 1..Len(cachedA(nameOf(records[i]))) |->
                     cachedA(nameOf(records[i]))[j].rdata]])

\* C7: a top-level resolution in which no receive timed out and no nested
\* call was made, and which returned at line 152, sent exactly one query more
\* than the referrals it followed and returned the last response unchanged
\* (ancount > 0); after a referral the call queries exactly the cached A rdata
\* of the referral's NS names; and a nested call is started on a referral only
\* when the cache holds no A record for any of its NS names.
C7_GluePath ==
  /\ (stack = <<>> /\ ret.via = "answer" /\ hist.touts = 0 /\ hist.nested = 0
        /\ hist.refs + 1 < MaxCount)
       => /\ hist.sent = hist.refs + 1
          /\ ret.kind = "packet"
          /\ ret.pkt = ret.response
          /\ ret.pkt \in Responses
          /\ ret.pkt.header.ancount > 0
  /\ (stack # <<>> /\ Top.pc = "query" /\ Top.src = "glue")
       => /\ Top.servers = GlueAddresses(cache, Top.response)
          /\ Top.servers # <<>>
          /\ sq.servers = Top.servers
          /\ sq.request.question = <<DNSQuestion(Top.fqdn, Top.qtype)>>
  /\ (Len(stack) >= 2 /\ Top.pc = "entry" /\ stack[Len(stack) - 1].pc = "ref_wait"
        /\ stack[Len(stack) - 1].ns_idx = 1)
       => GlueAddresses(cache, stack[Len(stack) - 1].response) = <<>>

\* root referral with glue, a second referral with glue, then the answer:
\* three queries, two referrals
C7_Witness ==
  /\ stack = <<>>
  /\ ret.via = "answer"
  /\ hist.touts = 0
  /\ hist.nested = 0
  /\ hist.refs = 2
  /\ hist.sent = 3

\* C8: when the nested call made for an NS name of a glueless referral has
\* ended, the caller goes on as follows: if it gave answer records, the
\* original (name, type) question is sent to exactly their rdata; if it gave
\* none (null included) the next NS name is resolved by a nested call, and
\* after the last name the caller returns null.
C8_NestedFallback ==
  [][ (stack # <<>> /\ Top.pc = "ref_wait") =>
        IF ret.kind = "packet" /\ ret.pkt.answer_records # <<>>
        THEN /\ Len(stack') = Len(stack)
             /\ stack'[Len(stack)].pc = "query"
             /\ stack'[Len(stack)].servers = RdataOf(ret.pkt.answer_records)
             /\ sq'.servers = RdataOf(ret.pkt.answer_records)
             /\ sq'.request.question = <<DNSQuestion(Top.fqdn, Top.qtype)>>
        ELSE IF Top.ns_idx < Len(Top.ns_list)
        THEN /\ Len(stack') = Len(stack) + 1
             /\ stack'[Len(stack')].arg = Top.ns_list[Top.ns_idx + 1]
             /\ stack'[Len(stack')].qtype = "A"
             /\ stack'[Len(stack')].pc = "entry"
        ELSE /\ stack' = Callers
             /\ ret'.kind = "none" ]_vars

\* the record is in the cache under (sanitized name, type)
InCache(c, record) ==
  LET k == strip(lower(record.name)) \o <<".">>
  IN /\ k \in DOMAIN c
     /\ record.qtype \in DOMAIN c[k]
     /\ \E i \in 1..Len(c[k][record.qtype]) : c[k][record.qtype][i] = record

AllInCache(c, response) ==
  \A record \in {response.answer_records[i] : i \in 1..Len(response.answer_records)}
         \cup {response.authority_records[i] : i \in 1..Len(response.authority_records)}
         \cup {response.additional_records[i] : i \in 1..Len(response.additional_records)} :
    InCache(c, record)

\* C9: whenever a call that received a NO_ERROR response is waiting for its
\* next send_query or for a nested call, or has returned, every record of the
\* three sections of that response is in the cache under (sanitized name,
\* type).
C9_ResponseCached ==
  /\ \A i \in 1..Len(stack) :
       IsNoError(stack[i].response) => AllInCache(cache, stack[i].response)
  /\ (ret.kind # "pending" /\ IsNoError(ret.response))
       => AllInCache(cache, ret.response)

\* a referral with a glue record has been received and the next query, to the
\* glue address, is on its way
C9_Witness ==
  /\ stack # <<>>
  /\ Top.pc = "query"
  /\ IsNoError(Top.response)
  /\ Top.response.additional_records # <<>>
  /\ Top.response.authority_records # <<>>
  /\ sq.status = "recv"

\* the candidate servers of a send_query: the empty strings are skipped
Candidates(servers) == SelectSeq(servers, LAMBDA server : server # <<>>)

\* C10: the datagram has gone to the first candidates of the list, in list
\* order, one more than the receives that timed out while a receive is
\* pending or has succeeded and exactly as many otherwise; a packet that is
\* returned is the decoded datagram; send_query returns null exactly when
\* every candidate timed out.
C10_InOrderUntilAnswer ==
  sq.status # "idle" =>
    LET cand == IF sq.recs THEN sq.roots ELSE Candidates(sq.servers)
        received == IF \/ sq.status = "recv"
                       \/ /\ sq.status = "done"
                          /\ \/ sq.outcome = "packet"
                             \/ sq.outcome = "raised" /\ ~sq.recs
                    THEN 1 ELSE 0
    IN /\ Len(sq.dests) <= Len(cand)
       /\ sq.dests = SubSeq(cand, 1, Len(sq.dests))
       /\ Len(sq.dests) = sq.touts + received
       /\ (sq.status = "done" /\ sq.outcome = "packet") => sq.result \in Responses
       /\ sq.status = "done" => (sq.outcome = "none" <=> sq.touts = Len(cand))

\* of three candidates the first timed out, the second answered, and the
\* third was never contacted
C10_Witness ==
  /\ sq.status = "done"
  /\ sq.outcome = "packet"
  /\ sq.touts = 1
  /\ sq.dests = <<ip1, ip9>>
  /\ Candidates(sq.servers) = <<ip1, ip9, ip0>>

\* C11: a datagram that cannot be decoded makes send_query return null, and
\* the recursive_query that called it return null: nothing ends with the
\* exception DNSPacket.fromBytes raised.
C11_DecodeErrorIsNull ==
  /\ ret.via = "decode" => (ret.kind = "none" /\ sq.outcome = "none")
  /\ (sq.status = "done" /\ ~sq.recs) => sq.outcome \in {"packet", "none"}

\* C12: a top-level recursive_query whose name is empty or made of dots only
\* is rejected: the call never gets past its entry, no datagram is sent for
\* it, and it returns null.
C12_MalformedRejected ==
  /\ (stack # <<>> /\ strip(stack[1].arg) = <<>>)
       => (stack[1].pc = "entry" /\ hist.sent = 0)
  /\ (ret.kind \in {"none", "packet"} /\ ret.top /\ strip(ret.arg) = <<>>)
       => (ret.kind = "none" /\ hist.sent = 0)

\* the five fields DNSRecord equality is about
Key5(r) == <<r.name, r.qtype, r.qclass, r.ttl, r.rdata>>

\* the cache c holds, under (sanitized name, type), a record equal to r on the
\* five fields
Holds(c, r) ==
  LET k == strip(lower(r.name)) \o <<".">>
  IN /\ k \in DOMAIN c
     /\ r.qtype \in DOMAIN c[k]
     /\ \E i \in 1..Len(c[k][r.qtype]) : Key5(c[k][r.qtype][i]) = Key5(r)

\* C13: no cached list holds two records equal on (name, type, class, ttl,
\* rdata); inserting a record twice or three times leaves the cache as
\* inserting it once does; a record that differs from a cached one only in
\* creation_time is not added; records that differ in one of the five fields
\* are both in the cache after both were inserted.
C13_InsertIdempotent ==
  /\ \A k \in DOMAIN cache : \A t \in DOMAIN cache[k] :
       \A i \in 1..Len(cache[k][t]) : \A j \in 1..Len(cache[k][t]) :
         i # j => Key5(cache[k][t][i]) # Key5(cache[k][t][j])
  /\ \A r \in CacheInputs :
       LET once == cache_records(cache, <<r>>)
       IN /\ cache_records(once, <<r>>) = once
          /\ cache_records(cache, <<r, r>>) = once
          /\ cache_records(cache, <<r, r, r>>) = once
          /\ Holds(once, r)
  /\ \A r \in CacheInputs : \A q \in CacheInputs :
       LET both == cache_records(cache, <<r, q>>)
       IN IF Key5(r) = Key5(q)
          THEN both = cache_records(cache, <<r>>)
          ELSE Holds(both, r) /\ Holds(both, q)

\* the list of a. A holds the three records that differ in ttl or rdata, and
\* only one of the two that differ in creation_time
C13_Witness ==
  /\ nm_a \in DOMAIN cache
  /\ "A" \in DOMAIN cache[nm_a]
  /\ Len(cache[nm_a]["A"]) = 3
  /\ Holds(cache, A_1later) /\ Holds(cache, A_ttl) /\ Holds(cache, A_rdata)

\* the names whose nearest NS list is asked for, each with its suffixes from
\* the full name to the root key
NearestCases ==
  { [name |-> nm_cba, suffixes |-> <<nm_cba, nm_ba, nm_a, nm_root>>],
    [name |-> <<"C", ".", "B", ".", "A">>, suffixes |-> <<nm_cba, nm_ba, nm_a, nm_root>>],
    [name |-> nm_ba, suffixes |-> <<nm_ba, nm_a, nm_root>>],
    [name |-> nm_ca, suffixes |-> <<nm_ca, nm_a, nm_root>>],
    [name |-> nm_d, suffixes |-> <<nm_d, nm_root>>],
    [name |-> nm_root, suffixes |-> <<nm_root>>] }

HasNS(c, k) == k \in DOMAIN c /\ "NS" \in DOMAIN c[k]

\* C14: check_nearest_ns returns the NS list cached under the first suffix of
\* the sanitized name, from the full name to the root key, that has one, and
\* null when none has.
C14_NearestNs ==
  \A case \in NearestCases :
    LET found == {i \in 1..Len(case.suffixes) : HasNS(cache, case.suffixes[i])}
        first == CHOOSE i \in found : \A j \in found : i <= j
    IN check_nearest_ns(cache, case.name) =
         IF found = {} THEN <<>> ELSE cache[case.suffixes[first]]["NS"]

\* NS lists are cached for a. and b.a. and none for the root: c.b.a. gets the
\* list of b.a., c.a. the list of a., and d. null
C14_Witness ==
  /\ HasNS(cache, nm_a) /\ HasNS(cache, nm_ba) /\ ~HasNS(cache, nm_root)
  /\ check_nearest_ns(cache, nm_cba) = cache[nm_ba]["NS"]
  /\ check_nearest_ns(cache, nm_ca) = cache[nm_a]["NS"]
  /\ check_nearest_ns(cache, nm_d) = <<>>
  /\ cache[nm_ba]["NS"] # cache[nm_a]["NS"]

\* spellings of one name, with the key they all stand for
Spellings ==
  { [key |-> nm_a, of |-> {nm_a, <<"A">>, <<"a">>, <<".", "A", ".">>, <<".", ".", "a", ".", ".">>}],
    [key |-> nm_ba, of |-> {nm_ba, nm_BA, <<"B", ".", "a">>, <<"b", ".", "A", ".">>}],
    [key |-> nm_root, of |-> {nm_root, nm_empty, <<".", ".">>}] }

\* lower case, no leading dot, one trailing dot
IsSanitized(k) ==
  /\ k # <<>>
  /\ k[Len(k)] = "."
  /\ Len(k) > 1 => (k[1] # "." /\ k[Len(k) - 1] # ".")
  /\ \A i \in 1..Len(k) : k[i] \notin {"A", "B", "C", "N", "R", "X"}

\* C15: sanitizing twice is sanitizing once, every spelling of a name has the
\* same sanitized form, every key of the cache is in sanitized form, every
\* record cached under (k, t) has sanitized name k and type t, and a lookup
\* gives the same list under every spelling of the name.
C15_SanitizedKeys ==
  /\ \A s \in Spellings : \A v \in s.of :
       /\ sanitize_domain(v) = s.key
       /\ sanitize_domain(sanitize_domain(v)) = sanitize_domain(v)
       /\ \A t \in {"A", "NS"} : check_cache(cache, v, t) = check_cache(cache, s.key, t)
  /\ \A k \in DOMAIN cache :
       /\ IsSanitized(k)
       /\ \A t \in DOMAIN cache[k] : \A i \in 1..Len(cache[k][t]) :
            /\ strip(lower(cache[k][t][i].name)) \o <<".">> = k
            /\ cache[k][t][i].qtype = t

\* a record inserted as ".B.A" is returned by the lookup of "b.a."
C15_Witness ==
  /\ check_cache(cache, nm_ba, "NS") # <<>>
  /\ \E i \in 1..Len(check_cache(cache, nm_ba, "NS")) :
       check_cache(cache, nm_ba, "NS")[i] = K_BA
  /\ check_cache(cache, <<"B", ".", "a">>, "NS") = check_cache(cache, nm_ba, "NS")

\* C20: no step removes or replaces a cached record: every key and type of
\* the cache is still there after the step, and the list cached before the
\* step is a prefix of the list cached after it.
C20_CacheAdditive ==
  [][ \A k \in DOMAIN cache :
        /\ k \in DOMAIN cache'
        /\ \A t \in DOMAIN cache[k] :
             /\ t \in DOMAIN cache'[k]
             /\ Len(cache[k][t]) <= Len(cache'[k][t])
             /\ SubSeq(cache'[k][t], 1, Len(cache[k][t])) = cache[k][t] ]_vars

\* the hints are still cached, and the A list of n. has grown twice: the glue
\* record of a referral, then the record of an answer
C20_Witness ==
  /\ check_cache(cache, nm_r, "A") # <<>>
  /\ check_cache(cache, nm_n, "A") = <<R_glue, R_nsaddr>>
  /\ check_cache(cache, nm_x, "NS") = <<R_ns>>

\* C17: DNSHeader.fromBytes(h.toBytes()) is h, field by field, for every
\* header h whose fields are members of the enumerations (Z = 0) and whose id
\* and counts are 16-bit values.
C17_HeaderRoundTrip ==
  (io.op = "header" /\ io.done) => io.out = io.arg

\* C17 for the headers with AD = 0 and CD = 0
C17_HeaderRoundTripButAdCd ==
  (io.op = "header" /\ io.done /\ io.arg.ad = "NOT_AUTHENTICATED" /\ io.arg.cd = "NO_CHECK")
    => io.out = io.arg

\* C16: DNSPacket.fromBytes(P.toBytes()) is P (header, questions and the
\* three record sections) for every packet P whose records have types among
\* A, NS, CNAME, SOA, PTR and AAAA.
C16_PacketRoundTrip ==
  (io.op \in {"packet", "encoded"} /\ io.done) => io.out = io.arg

\* C16 for the packets whose records have types among NS, CNAME and PTR
C16_PacketRoundTripOfNames ==
  (/\ io.op \in {"packet", "encoded"} /\ io.done
   /\ \A i \in 1..Len(io.arg.answer_records) : io.arg.answer_records[i].qtype \in {"NS", "CNAME", "PTR"}
   /\ \A i \in 1..Len(io.arg.authority_records) : io.arg.authority_records[i].qtype \in {"NS", "CNAME", "PTR"}
   /\ \A i \in 1..Len(io.arg.additional_records) : io.arg.additional_records[i].qtype \in {"NS", "CNAME", "PTR"})
    => io.out = io.arg

\* what DNSPacket.fromBytes makes of a server's datagram: Datagram gives
\* DatagramPacket, and each of its proper prefixes and DatagramUnknownType
\* make it raise
DecodesOrRaises ==
  (io.op = "datagram" /\ io.done) =>
    IF io.arg = Datagram THEN io.out = DatagramPacket ELSE IsRaised(io.out)

\* the lines of a hints file that are no comment and have four fields
RecordLines(lines) ==
  SelectSeq(lines, LAMBDA line :
    Len(line) = 4 /\ ~(Head(line) # <<>> /\ Head(Head(line)) = ";"))

\* the record a line stands for (the loader lower-cases the line)
LineRecord(line) ==
  [name |-> lower(line[1]), ttl |-> line[2], rdata |-> lower(line[4]), qclass |-> "IN",
   qtype |-> CASE line[3] = "ns" -> "NS" [] line[3] = "a" -> "A" [] line[3] = "aaaa" -> "AAAA"]

\* the records of type qtype the cache c holds for the rdata of the NS lines,
\* in line order
RootServersOf(c, lines, qtype) ==
  LET nsLines == SelectSeq(RecordLines(lines), LAMBDA line : line[3] = "ns")
  IN ConcatAll([i \in 1..Len(nsLines) |->
                  LET k == strip(lower(nsLines[i][4])) \o <<".">>
                  IN IF k \in DOMAIN c /\ qtype \in DOMAIN c[k] THEN c[k][qtype] ELSE <<>>])

\* C18: the hints loader ends without raising; afterwards the cache holds the
\* record of every line that is no comment and has four fields, the NS lines
\* included, and root_srv[V4] / root_srv[V6] are the cached A / AAAA records
\* of the domains the NS lines name, in line order.
C18_HintsLoaded ==
  (io.op = "hints" /\ io.done) =>
    /\ ~IsRaised(io.out)
    /\ \A i \in 1..Len(RecordLines(io.arg)) :
         Holds(io.out.cache, LineRecord(RecordLines(io.arg)[i]))
    /\ io.out.root_srv.IPV4 = RootServersOf(io.out.cache, io.arg, "A")
    /\ io.out.root_srv.IPV6 = RootServersOf(io.out.cache, io.arg, "AAAA")

\* C18 without the NS lines, for the files in which every root server has an
\* A line and an AAAA line
C18_HintsLoadedButNs ==
  (io.op = "hints" /\ io.done /\ ~IsRaised(io.out)) =>
    /\ \A i \in 1..Len(RecordLines(io.arg)) :
         RecordLines(io.arg)[i][3] # "ns"
           => Holds(io.out.cache, LineRecord(RecordLines(io.arg)[i]))
    /\ io.out.root_srv.IPV4 = RootServersOf(io.out.cache, io.arg, "A")
    /\ io.out.root_srv.IPV6 = RootServersOf(io.out.cache, io.arg, "AAAA")

\* C19: reverse_lookup_v4 of a.b.c.d asks for d.c.b.a.in-addr.arpa. with type
\* PTR; reverse_lookup_v6 asks, with type PTR, for a name of 32 one-digit
\* labels followed by ip6.arpa. whose label i (from 0) is digit 31 - i of the
\* fully expanded address.
C19_ReverseNames ==
  /\ (io.op = "v4" /\ io.done) =>
       /\ io.out.qtype = "PTR"
       /\ io.out.qname = io.arg.octets[4] \o <<".">> \o io.arg.octets[3] \o <<".">>
                           \o io.arg.octets[2] \o <<".">> \o io.arg.octets[1]
                           \o <<".", "i", "n", "-", "a", "d", "d", "r", ".", "a", "r", "p", "a", ".">>
  /\ (io.op = "v6" /\ io.done) =>
       /\ io.out.qtype = "PTR"
       /\ Len(io.out.qname) = 73
       /\ \A i \in 0..31 :
            /\ io.out.qname[2 * i + 1] = io.arg.nibbles[32 - i]
            /\ io.out.qname[2 * i + 2] = "."
       /\ SubSeq(io.out.qname, 65, 73) = <<"i", "p", "6", ".", "a", "r", "p", "a", ".">>

\* the name asked for 2001:db8::1 starts with 1.0.0.0 and ends with
\* 8.b.d.0.1.0.0.2.ip6.arpa.
C19_Witness ==
  /\ io.op = "v6"
  /\ io.done
  /\ io.arg.literal = <<"2", "0", "0", "1", ":", "d", "b", "8", ":", ":", "1">>
  /\ SubSeq(io.out.qname, 1, 8) = <<"1", ".", "0", ".", "0", ".", "0", ".">>
  /\ SubSeq(io.out.qname, 49, 73) = <<"8", ".", "b", ".", "d", ".", "0", ".", "1", ".", "0", ".", "0", ".", "2", ".", "i", "p", "6", ".", "a", "r", "p", "a", ".">>

\* C21: while a call seeds its server list from cached NS records without
\* glue (it waits at seed_wait), the nested call it has made was given the
\* NS name (the rdata of the NS record in turn), as a name, with type A.
C21_SeedResolvesNsNames ==
  \A i \in 1..Len(stack) :
    (stack[i].pc = "seed_wait" /\ i < Len(stack)) =>
      /\ ~stack[i + 1].isrec
      /\ stack[i + 1].arg = stack[i].ns_recs[stack[i].ns_idx].rdata
      /\ stack[i + 1].qtype = "A"

\* the outcome the specification gives to a name that cannot be decoded
FormatError == [format_error |-> TRUE]

\* C24: reading a name whose compression pointers form a cycle, or point
\* outside the buffer, ends with a format error (and not with an exception
\* of the interpreter).
C24_PointerFormatError ==
  (io.op = "readname" /\ io.done /\ io.arg.kind \in {"cycle", "outside"})
    => io.out = FormatError

\* what _readNameFromBytes makes of NameBuffers: the name is read from the
\* buffers of kind ok, every other buffer makes it raise
ReadsOrRaises ==
  (io.op = "readname" /\ io.done) =>
    IF io.arg.kind = "ok"
    THEN /\ ~IsRaised(io.out)
         /\ io.out.name \in {<<"x", ".">>, <<"n", ".", "x", ".">>}
    ELSE IsRaised(io.out)

\* the labels of a name: its parts between dots, without the empty ones
Labels(name) == SelectSeq(split(name), LAMBDA part : part # <<>>)

\* the name with one trailing dot
TrailingDot(name) == IF name # <<>> /\ name[Len(name)] = "." THEN name ELSE name \o <<".">>

\* C23: _nameToBytes gives the length-prefixed labels of the name followed by
\* exactly one zero byte, and _readNameFromBytes of these bytes gives the name
\* in trailing-dot form and consumes all of them.
C23_NameEncoding ==
  (io.op = "name" /\ io.done) =>
    /\ io.out.bytes = PartsToBytes(Labels(io.arg)) \o <<0>>
    /\ io.out.read = [name |-> TrailingDot(io.arg), len |-> Len(io.out.bytes)]

\* C23 for the names that end with a dot and are not the root
C23_NameEncodingOfDotted ==
  (io.op = "name" /\ io.done /\ Len(io.arg) > 1 /\ io.arg[Len(io.arg)] = ".") =>
    /\ io.out.bytes = PartsToBytes(Labels(io.arg)) \o <<0>>
    /\ io.out.read = [name |-> TrailingDot(io.arg), len |-> Len(io.out.bytes)]

\* C22: DNSRecord.fromBytes gives back, with the records, the index of the
\* first byte after the last record it decoded, whatever the types of the
\* records (A, AAAA, NS, CNAME, PTR, SOA), so that a record following another
\* is read from its true start.
C22_OffsetThreaded ==
  (io.op = "records" /\ io.done) =>
    /\ ~IsRaised(io.out)
    /\ io.out.offset = io.arg.end
    /\ io.out.list = io.arg.sent

\* C22 for the buffers without an SOA record
C22_OffsetThreadedButSoa ==
  (/\ io.op = "records" /\ io.done
   /\ \A k \in 1..Len(io.arg.sent) : io.arg.sent[k].qtype # "SOA") =>
    /\ ~IsRaised(io.out)
    /\ io.out.offset = io.arg.end
    /\ io.out.list = io.arg.sent

\* C25: a packet that recursive_query returned stays as it was returned,
\* whatever the resolver does afterwards: its header counts are the lengths of
\* its sections and its answer list keeps its contents.
C25_ReturnedPacketStable ==
  kept.has =>
    /\ KeptNow.answer_records = kept.pkt.answer_records
    /\ KeptNow.header.ancount = Len(KeptNow.answer_records)
    /\ KeptNow.header = kept.pkt.header

\* the server list the caller gave to the send_query call: the empty list
\* when the call took the root list in its place
ServersGiven == IF sq.recs THEN <<>> ELSE sq.servers

\* C26: the destinations of the datagrams of a send_query call are addresses:
\* the first non-empty entries of the server list it was given, in order, or,
\* when that list was empty, the first rdata of the V4 root servers, in
\* order; a call that has ended with candidates to try has sent a datagram.
C26_Destinations ==
  sq.status # "idle" =>
    LET cand == IF ServersGiven = <<>> THEN RdataOf(root_srv.IPV4)
                ELSE Candidates(ServersGiven)
    IN /\ Len(sq.dests) <= Len(cand)
       /\ sq.dests = SubSeq(cand, 1, Len(sq.dests))
       /\ (sq.status = "done" /\ cand # <<>>) => sq.dests # <<>>

\* C26 for the calls that were given a server list that is not empty
C26_DestinationsOfList ==
  (sq.status # "idle" /\ ServersGiven # <<>>) =>
    LET cand == Candidates(ServersGiven)
    IN /\ Len(sq.dests) <= Len(cand)
       /\ sq.dests = SubSeq(cand, 1, Len(sq.dests))
       /\ (sq.status = "done" /\ cand # <<>>) => sq.dests # <<>>

====
